---- MODULE Spec2Model ----
(***************************************************************************)
(* Concrete_Route: single-depot capacitated routing with the Clarke-Wright *)
(* savings heuristic (services/optimizer.ts, latest variant with the live  *)
(* routing matrix and the schedule pass).                                  *)
(*                                                                         *)
(* Units.  Volumes are fixed-point thousandths of a cubic metre (9 m3 is   *)
(* 9000).  Travel times are hundredths of a second, distances are metres,  *)
(* so the live matrix (seconds / 60, metres / 1000) and the geometric      *)
(* estimator (km * 1.3, km * 1.3 / 40 * 60) share one unit each.           *)
(* Coordinates are 0.0001 degree apiece, all on one meridian, where the    *)
(* haversine formula reduces to R * |dLat|.                                *)
(***************************************************************************)
EXTENDS Integers, Sequences, FiniteSets, TLC

VARIABLES
    pc,          \* position of processOptimization
    rawData,     \* input rows  [volume, endereco]
    config,      \* [originAddress, truckCapacity]
    geoCache,    \* module-level Map address -> coordinate (utils/geo)
    geoRequests, \* external geocode requests issued, in order
    origin,      \* resolved depot coordinate, or NoCoord
    i,           \* index of the next row of the expansion loop (0-based)
    allStops,    \* stops produced by demand expansion
    unmapped,    \* addresses whose geocoding failed
    coordsMap,   \* unique coordinates in insertion order
    matrixRequests, \* number of live matrix requests issued
    matrix,      \* the cost matrix in use
    routes,      \* active routes of the merge pass
    savings,     \* sorted savings list
    k,           \* number of savings entries already processed
    result,      \* what the caller receives
    failedRows,  \* history: indices of the rows whose geocoding returned null
    matrixAnswer, \* history: "failed" or "ok" as the routing service answered,
                 \* "none" while unasked
    state,       \* App: the React state (currentShift, shifts)
    runs,        \* App: the calls of handleRun that await processOptimization
    lastOutcome  \* App history: how the last call of handleRun ended

vars == <<pc, rawData, config, geoCache, geoRequests, origin, i, allStops,
          unmapped, coordsMap, matrixRequests, matrix, routes, savings, k,
          result, failedRows, matrixAnswer, state, runs, lastOutcome>>

\* the variables of the optimizer and those of the App component
optimizerVars == <<pc, rawData, config, geoCache, geoRequests, origin, i,
                   allStops, unmapped, coordsMap, matrixRequests, matrix,
                   routes, savings, k, result, failedRows, matrixAnswer>>
appVars == <<state, runs, lastOutcome>>

----------------------------------------------------------------------------
(* Bounds of the model *)

MaxRows == 3
MaxPool == 3
MaxCalls == 4
MaxStops == 3
MaxMergeStops == 4

(* Program constants *)

MinRemainder == 10
CapacityTolerance == 10
NaN == -1
UnknownCost == 5994000
UnknownDist == 999000

----------------------------------------------------------------------------
(* The world outside the program *)

OriginAddress == "O"
RowAddresses == {"A", "B"}
Volumes == {4504, 4506, 11000}
Capacities == {9000}

Coord(lat) == [lat |-> lat, lng |-> -4865]
NoCoord == [lat |-> 0, lng |-> 0]

\* where the geocoding service places each address when it answers
Position(address) ==
    CASE address = "O" -> Coord(-2689)
      [] address = "A" -> Coord(-2680)
      [] address = "B" -> Coord(-2675)
      [] address = "C" -> Coord(-2695)

\* road network behind the live matrix: seconds and metres per ordered pair
RoadSecs(a, b) ==
    IF a = b THEN 0
    ELSE CASE a.lat = -2689 /\ b.lat = -2680 -> 600
           [] a.lat = -2680 /\ b.lat = -2689 -> 660
           [] a.lat = -2689 /\ b.lat = -2675 -> 900
           [] a.lat = -2675 /\ b.lat = -2689 -> 840
           [] a.lat = -2680 /\ b.lat = -2675 -> 420
           [] a.lat = -2675 /\ b.lat = -2680 -> 480
           [] a.lat = -2689 /\ b.lat = -2695 -> 800
           [] a.lat = -2695 /\ b.lat = -2689 -> 780
           [] a.lat = -2680 /\ b.lat = -2695 -> 1500
           [] a.lat = -2695 /\ b.lat = -2680 -> 1300
           [] a.lat = -2675 /\ b.lat = -2695 -> 1900
           [] a.lat = -2695 /\ b.lat = -2675 -> 1800

RoadMeters(a, b) ==
    IF a = b THEN 0
    ELSE CASE a.lat = -2689 /\ b.lat = -2680 -> 11000
           [] a.lat = -2680 /\ b.lat = -2689 -> 12000
           [] a.lat = -2689 /\ b.lat = -2675 -> 17000
           [] a.lat = -2675 /\ b.lat = -2689 -> 16000
           [] a.lat = -2680 /\ b.lat = -2675 -> 6000
           [] a.lat = -2675 /\ b.lat = -2680 -> 7000
           [] a.lat = -2689 /\ b.lat = -2695 -> 8000
           [] a.lat = -2695 /\ b.lat = -2689 -> 8000
           [] a.lat = -2680 /\ b.lat = -2695 -> 19000
           [] a.lat = -2695 /\ b.lat = -2680 -> 18000
           [] a.lat = -2675 /\ b.lat = -2695 -> 25000
           [] a.lat = -2695 /\ b.lat = -2675 -> 24000

----------------------------------------------------------------------------
(* Numbers *)

Abs(x) == IF x < 0 THEN -x ELSE x

\* Number(v.toFixed(2)) on thousandths: round to the nearest hundredth
ToFixed2(v) == ((v + 5) \div 10) * 10

\* arithmetic and comparison with NaN operands
IsNaN(x) == x = NaN
Plus(x, y) == IF IsNaN(x) \/ IsNaN(y) THEN NaN ELSE x + y
Less(x, y) == ~IsNaN(x) /\ ~IsNaN(y) /\ x < y

----------------------------------------------------------------------------
(* utils/geo *)

\* haversine distance in hundredths of a km, rounded to 2 decimals
calculateDistanceKm(a, b) ==
    (Abs(b.lat - a.lat) * 111195 + 50000) \div 100000


GeoOutcomes == {"found", "nomatch", "httperror", "network"}

\* variant that asks the service without looking into the cache
geocodeAddressNoCache(address, cache, requests, outcome) ==
    IF outcome = "found"
    THEN [coords |-> Position(address), found |-> TRUE,
          cache |-> [a \in DOMAIN cache \cup {address} |->
                        IF a = address THEN Position(address) ELSE cache[a]],
          requests |-> Append(requests, address)]
    ELSE [coords |-> NoCoord, found |-> FALSE,
          cache |-> cache, requests |-> Append(requests, address)]

\* geocodeAddress: the value returned, the cache and the request log after
\* the call, for one answer of the geocoding service
geocodeAddress(address, cache, requests, outcome) ==
    IF address \in DOMAIN cache
    THEN [coords |-> cache[address], found |-> TRUE,
          cache |-> cache, requests |-> requests]
    ELSE IF outcome = "found"
    THEN [coords |-> Position(address), found |-> TRUE,
          cache |-> [a \in DOMAIN cache \cup {address} |->
                        IF a = address THEN Position(address) ELSE cache[a]],
          requests |-> Append(requests, address)]
    ELSE [coords |-> NoCoord, found |-> FALSE,
          cache |-> cache, requests |-> Append(requests, address)]

\* the answers the service can give to a call: none is asked when cached
GeoAnswers(address, cache) ==
    IF address \in DOMAIN cache THEN {"found"} ELSE GeoOutcomes

----------------------------------------------------------------------------
(* Cost matrix *)

getKey(a, b) == <<a, b>>

\* arr[idx] of a JS array held as a 1-based sequence; NaN stands for the
\* undefined a read past the end yields once divided
ArrayAt(arr, idx) == IF idx < Len(arr) THEN arr[idx + 1] ELSE NaN

\* data.matrix.travelTimes[idx] / 60 and data.matrix.distances[idx] / 1000
LiveTime(travelTimes, idx) ==
    IF IsNaN(ArrayAt(travelTimes, idx)) THEN NaN
    ELSE ArrayAt(travelTimes, idx) * 100
LiveDist(distances, idx) == ArrayAt(distances, idx)

\* variant of the double loop with idx = j * numCols + i
BuildLookupTransposed(uniquePoints, travelTimes, distances) ==
    LET n == Len(uniquePoints)
        numCols == n
        keys == {getKey(uniquePoints[a], uniquePoints[b]) : a, b \in 1..n}
        lastIdx(key) ==
            CHOOSE idx \in 0..(n * n - 1) :
                /\ getKey(uniquePoints[(idx % numCols) + 1],
                          uniquePoints[(idx \div numCols) + 1]) = key
                /\ \A other \in 0..(n * n - 1) :
                     getKey(uniquePoints[(other % numCols) + 1],
                            uniquePoints[(other \div numCols) + 1]) = key
                       => other <= idx
    IN [key \in keys |->
          [time |-> LiveTime(travelTimes, lastIdx(key)),
           dist |-> LiveDist(distances, lastIdx(key))]]

\* the lookup Map filled by the double loop; a later set of the same key wins
BuildLookup(uniquePoints, travelTimes, distances) ==
    LET n == Len(uniquePoints)
        numCols == n
        keys == {getKey(uniquePoints[a], uniquePoints[b]) : a, b \in 1..n}
        lastIdx(key) ==
            CHOOSE idx \in 0..(n * n - 1) :
                /\ getKey(uniquePoints[(idx \div numCols) + 1],
                          uniquePoints[(idx % numCols) + 1]) = key
                /\ \A other \in 0..(n * n - 1) :
                     getKey(uniquePoints[(other \div numCols) + 1],
                            uniquePoints[(other % numCols) + 1]) = key
                       => other <= idx
    IN [key \in keys |->
          [time |-> LiveTime(travelTimes, lastIdx(key)),
           dist |-> LiveDist(distances, lastIdx(key))]]

\* what the routing service sends for the points asked, as flat arrays
ServerTimes(uniquePoints) ==
    LET n == Len(uniquePoints)
    IN [idx \in 1..(n * n) |->
          RoadSecs(uniquePoints[((idx - 1) \div n) + 1],
                   uniquePoints[((idx - 1) % n) + 1])]

ServerDistances(uniquePoints) ==
    LET n == Len(uniquePoints)
    IN [idx \in 1..(n * n) |->
          RoadMeters(uniquePoints[((idx - 1) \div n) + 1],
                     uniquePoints[((idx - 1) % n) + 1])]

\* answers to the matrix request: a rejected fetch, a non-OK status, a body
\* that is no JSON, JSON without the matrix object, arrays cut short, or the
\* complete answer
MatrixOutcomes == {"network", "status", "badjson", "nomatrix", "short", "ok"}

\* length of a cut-short answer for n points: the last row is missing
ShortLengths(n) == {n * n - n}

\* whether an answer is a failed request: a transport error, a non-OK status
\* or a malformed payload
FailedAnswer(outcome) == outcome # "ok"

EmptyLookup == [key \in {} |-> [time |-> 0, dist |-> 0]]

createFallbackMatrix == [live |-> FALSE, lookup |-> EmptyLookup]

\* fetchHereMatrix: null (none) without a request for fewer than 2 points and
\* on anything thrown inside the try block, else the lookup over the answer
fetchHereMatrix(uniquePoints, outcome, shortLen) ==
    IF Len(uniquePoints) < 2
    THEN [none |-> TRUE, requested |-> 0, lookup |-> EmptyLookup]
    ELSE IF outcome \in {"network", "status", "badjson", "nomatrix"}
    THEN [none |-> TRUE, requested |-> 1, lookup |-> EmptyLookup]
    ELSE LET times == IF outcome = "short"
                      THEN SubSeq(ServerTimes(uniquePoints), 1, shortLen)
                      ELSE ServerTimes(uniquePoints)
             dists == IF outcome = "short"
                      THEN SubSeq(ServerDistances(uniquePoints), 1, shortLen)
                      ELSE ServerDistances(uniquePoints)
         IN [none |-> FALSE, requested |-> 1,
             lookup |-> BuildLookup(uniquePoints, times, dists)]

\* createFallbackMatrix().get: d * 1.3 km and d * 1.3 / 40 * 60 minutes
FallbackGet(a, b) ==
    [dist |-> calculateDistanceKm(a, b) * 13,
     time |-> calculateDistanceKm(a, b) * 117]

\* variant whose answer for an absent pair is a zero cost
MatrixGetZeroForUnknown(m, from, to) ==
    IF m.live
    THEN IF getKey(from, to) \in DOMAIN m.lookup
         THEN m.lookup[getKey(from, to)]
         ELSE [time |-> 0, dist |-> 0]
    ELSE FallbackGet(from, to)

\* matrix.get(from, to)
MatrixGet(m, from, to) ==
    IF m.live
    THEN IF getKey(from, to) \in DOMAIN m.lookup
         THEN m.lookup[getKey(from, to)]
         ELSE [time |-> UnknownCost, dist |-> UnknownDist]
    ELSE FallbackGet(from, to)

----------------------------------------------------------------------------
(* nearestNeighborSort *)

RemoveAt(seq, idx) == SubSeq(seq, 1, idx - 1) \o SubSeq(seq, idx + 1, Len(seq))

\* the forEach scan: index (1-based, 0 for the initial -1) of the first stop
\* with the least time from curr; bestT is Infinity while bestIdx is 0
RECURSIVE ScanPool(_, _, _, _, _, _)
ScanPool(pool, curr, m, idx, bestIdx, bestT) ==
    IF idx > Len(pool) THEN bestIdx
    ELSE LET t == MatrixGet(m, curr, pool[idx].coords).time
             better == IF bestIdx = 0 THEN ~IsNaN(t) ELSE Less(t, bestT)
         IN IF better THEN ScanPool(pool, curr, m, idx + 1, idx, t)
            ELSE ScanPool(pool, curr, m, idx + 1, bestIdx, bestT)

\* pool.splice(bestIdx, 1)[0]: index -1 addresses the last element
SpliceIndex(pool, bestIdx) == IF bestIdx = 0 THEN Len(pool) ELSE bestIdx

\* variant that leaves the loop when the scan finds no candidate
RECURSIVE NNLoopBreak(_, _, _, _, _)
NNLoopBreak(pool, curr, m, sorted, iterations) ==
    IF Len(pool) = 0 \/ ScanPool(pool, curr, m, 1, 0, 0) = 0
    THEN [sorted |-> sorted, iterations |-> iterations]
    ELSE LET idx == ScanPool(pool, curr, m, 1, 0, 0)
         IN NNLoopBreak(RemoveAt(pool, idx), pool[idx].coords, m,
                        Append(sorted, pool[idx]), iterations + 1)

RECURSIVE NNLoop(_, _, _, _, _)
NNLoop(pool, curr, m, sorted, iterations) ==
    IF Len(pool) = 0
    THEN [sorted |-> sorted, iterations |-> iterations]
    ELSE LET idx == SpliceIndex(pool, ScanPool(pool, curr, m, 1, 0, 0))
         IN NNLoop(RemoveAt(pool, idx), pool[idx].coords, m,
                   Append(sorted, pool[idx]), iterations + 1)

nearestNeighborSort(stops, originCoords, m) ==
    NNLoop(stops, originCoords, m, <<>>, 0).sorted


----------------------------------------------------------------------------
(* Demand expansion *)

StopId(row, v, final) == [row |-> row, v |-> v, final |-> final]

\* the stops pushed by `while (v > truckCapacity)` for row index row
RECURSIVE FullStops(_, _, _, _, _)
FullStops(row, v, coords, endereco, truckCapacity) ==
    IF v > truckCapacity
    THEN <<[id |-> StopId(row, v, FALSE), coords |-> coords,
            volume |-> truckCapacity, endereco |-> endereco,
            originalIndex |-> row]>>
         \o FullStops(row, v - truckCapacity, coords, endereco, truckCapacity)
    ELSE <<>>

\* the value of v when the while loop ends
RECURSIVE Remaining(_, _)
Remaining(v, truckCapacity) ==
    IF v > truckCapacity THEN Remaining(v - truckCapacity, truckCapacity)
    ELSE v

\* variant of the final stop with the threshold of the earlier optimizer
FinalStopThousandth(row, v, coords, endereco) ==
    IF v > 1
    THEN <<[id |-> StopId(row, 0, TRUE), coords |-> coords,
            volume |-> ToFixed2(v), endereco |-> endereco,
            originalIndex |-> row]>>
    ELSE <<>>

\* the final stop, pushed when the remainder is above the threshold
FinalStop(row, v, coords, endereco) ==
    IF v > MinRemainder
    THEN <<[id |-> StopId(row, 0, TRUE), coords |-> coords,
            volume |-> ToFixed2(v), endereco |-> endereco,
            originalIndex |-> row]>>
    ELSE <<>>

ExpandRow(row, volume, coords, endereco, truckCapacity) ==
    FullStops(row, volume, coords, endereco, truckCapacity)
    \o FinalStop(row, Remaining(volume, truckCapacity), coords, endereco)

\* variant without the `continue` of an unresolved row
RowStopsNoContinue(found, row, volume, coords, endereco, truckCapacity) ==
    ExpandRow(row, volume, coords, endereco, truckCapacity)

\* the stops one row adds: none after `if (!coords) { ...; continue; }`
RowStops(found, row, volume, coords, endereco, truckCapacity) ==
    IF found THEN ExpandRow(row, volume, coords, endereco, truckCapacity)
    ELSE <<>>

\* variant without the throw
AfterOriginNoThrow(found) == "rows"

\* `if (!origin) throw new Error(...)`: where the run goes after the origin
AfterOrigin(found) == IF found THEN "rows" ELSE "error"

\* coordsMap.set(`${lat},${lng}`, coords): a new key is appended, a known key
\* keeps its place
CoordsMapSet(map, coords) ==
    IF \E n \in 1..Len(map) : map[n] = coords THEN map ELSE Append(map, coords)

----------------------------------------------------------------------------
(* Savings *)

\* variant that reads the leg between the stops in the opposite direction
SavingValueReversed(m, originCoords, a, b) ==
    LET oa == MatrixGet(m, originCoords, a.coords).time
        ob == MatrixGet(m, originCoords, b.coords).time
        ba == MatrixGet(m, b.coords, a.coords).time
    IN IF IsNaN(oa) \/ IsNaN(ob) \/ IsNaN(ba) THEN NaN ELSE oa + ob - ba

\* time(origin, a) + time(origin, b) - time(a, b), NaN if any term is NaN
SavingValue(m, originCoords, a, b) ==
    LET oa == MatrixGet(m, originCoords, a.coords).time
        ob == MatrixGet(m, originCoords, b.coords).time
        ab == MatrixGet(m, a.coords, b.coords).time
    IN IF IsNaN(oa) \/ IsNaN(ob) \/ IsNaN(ab) THEN NaN ELSE oa + ob - ab

\* s > 0 in JS: false for NaN
Positive(s) == ~IsNaN(s) /\ s > 0

\* the pairs a < b in the order the double loop pushes them
RECURSIVE SavingsFrom(_, _, _, _, _)
SavingsFrom(stops, m, originCoords, a, b) ==
    IF a > Len(stops) THEN <<>>
    ELSE IF b > Len(stops) THEN SavingsFrom(stops, m, originCoords, a + 1, a + 2)
    ELSE LET s == SavingValue(m, originCoords, stops[a], stops[b])
             rest == SavingsFrom(stops, m, originCoords, a, b + 1)
         IN IF Positive(s)
            THEN <<[i |-> stops[a].id, j |-> stops[b].id, s |-> s]>> \o rest
            ELSE rest

\* savings.sort((a, b) => b.s - a.s): stable, descending
RECURSIVE InsertDesc(_, _)
InsertDesc(sorted, e) ==
    IF sorted = <<>> THEN <<e>>
    ELSE IF Head(sorted).s >= e.s THEN <<Head(sorted)>> \o InsertDesc(Tail(sorted), e)
    ELSE <<e>> \o sorted

\* variant that leaves the list in the order the double loop pushed it
SortSkipped(list) == list

RECURSIVE SortDesc(_)
SortDesc(list) ==
    IF list = <<>> THEN <<>>
    ELSE InsertDesc(SortDesc(SubSeq(list, 1, Len(list) - 1)), list[Len(list)])

\* routes.findIndex(r => r.stops.some(s => s.id === id)); 0 stands for -1
FindRoute(rs, id) ==
    IF \E n \in 1..Len(rs) : \E p \in 1..Len(rs[n].stops) : rs[n].stops[p].id = id
    THEN CHOOSE n \in 1..Len(rs) :
           /\ \E p \in 1..Len(rs[n].stops) : rs[n].stops[p].id = id
           /\ \A q \in 1..(n - 1) :
                \A p \in 1..Len(rs[q].stops) : rs[q].stops[p].id # id
    ELSE 0

\* variant of the condition without the volume test
CanMergeAnyVolume(rs, ri, rj, truckCapacity) ==
    /\ ri # 0
    /\ rj # 0
    /\ ri # rj

\* variant of the condition that wants the load strictly below the capacity
CanMergeStrictlyBelow(rs, ri, rj, truckCapacity) ==
    /\ ri # 0
    /\ rj # 0
    /\ ri # rj
    /\ rs[ri].totalVolume + rs[rj].totalVolume < truckCapacity

\* the condition of the if statement of the merge loop
CanMerge(rs, ri, rj, truckCapacity) ==
    /\ ri # 0
    /\ rj # 0
    /\ ri # rj
    /\ rs[ri].totalVolume + rs[rj].totalVolume <= truckCapacity + CapacityTolerance

\* variant of the body that leaves the absorbed route in the list
MergeRoutesNoSplice(rs, ri, rj, originCoords, m) ==
    [rs EXCEPT ![ri] =
        [rs[ri] EXCEPT
           !.stops = nearestNeighborSort(rs[ri].stops \o rs[rj].stops,
                                         originCoords, m),
           !.totalVolume = rs[ri].totalVolume + rs[rj].totalVolume]]

\* variant of the body that does not add the absorbed route's volume
MergeRoutesStaleVolume(rs, ri, rj, originCoords, m) ==
    RemoveAt([rs EXCEPT ![ri] =
                [rs[ri] EXCEPT
                   !.stops = nearestNeighborSort(rs[ri].stops \o rs[rj].stops,
                                                 originCoords, m)]], rj)

\* variant of the body that splices at ri after the update
MergeRoutesSpliceFirst(rs, ri, rj, originCoords, m) ==
    RemoveAt([rs EXCEPT ![ri] =
                [rs[ri] EXCEPT
                   !.stops = nearestNeighborSort(rs[ri].stops \o rs[rj].stops,
                                                 originCoords, m),
                   !.totalVolume = rs[ri].totalVolume + rs[rj].totalVolume]], ri)

\* variant of the body that resequences the absorbed route alone into ri
MergeRoutesOverwrite(rs, ri, rj, originCoords, m) ==
    RemoveAt([rs EXCEPT ![ri] =
                [rs[ri] EXCEPT
                   !.stops = nearestNeighborSort(rs[rj].stops, originCoords, m),
                   !.totalVolume = rs[ri].totalVolume + rs[rj].totalVolume]], rj)

\* variant of the body that keeps whichever route comes first in the list
MergeRoutesKeepFirst(rs, ri, rj, originCoords, m) ==
    LET lo == IF ri < rj THEN ri ELSE rj
        hi == IF ri < rj THEN rj ELSE ri
    IN RemoveAt([rs EXCEPT ![lo] =
                   [rs[lo] EXCEPT
                      !.stops = nearestNeighborSort(rs[ri].stops \o rs[rj].stops,
                                                    originCoords, m),
                      !.totalVolume = rs[ri].totalVolume + rs[rj].totalVolume]], hi)

\* the body of the if statement: resequence into ri, add the volume, splice rj
MergeRoutes(rs, ri, rj, originCoords, m) ==
    LET merged == [rs[ri] EXCEPT
                     !.stops = nearestNeighborSort(rs[ri].stops \o rs[rj].stops,
                                                   originCoords, m),
                     !.totalVolume = rs[ri].totalVolume + rs[rj].totalVolume]
        updated == [rs EXCEPT ![ri] = merged]
    IN RemoveAt(updated, rj)

\* allStops.map((s, idx) => ({ id: `R${idx}`, stops: [s], totalVolume: s.volume }))
InitialRoutes(stops) ==
    [idx \in 1..Len(stops) |->
        [id |-> idx - 1, stops |-> <<stops[idx]>>, totalVolume |-> stops[idx].volume]]


----------------------------------------------------------------------------
(* Schedule pass *)

\* Math.round of a travel time (hundredths of a second) in whole minutes
RoundMinutes(t) == (t + 3000) \div 6000

\* Math.round of an unloading duration (thousandths of a minute)
RoundDuration(d) == (d + 500) \div 1000

\* variant that sets the minute field instead of adding to it
addMinutesSetField(clock, whole) ==
    IF IsNaN(clock) \/ IsNaN(whole) THEN NaN
    ELSE ((clock \div 60) * 60 + whole) % 1440

\* variant whose hour field is not reduced to the day
addMinutesNoDayWrap(clock, whole) ==
    IF IsNaN(clock) \/ IsNaN(whole) THEN NaN ELSE clock + whole

\* Date.setHours(h, minutes, 0) on today's date: the minutes since today's
\* local midnight, the overflow of the minute field carried into the hours
\* and the days (a zone whose clock is not changed in the days reached)
setHours(h, minutes) == h * 60 + minutes

\* Date.toTimeString().substring(0, 5): the hour of the day and the minute of
\* the hour of a date, as minutes after midnight
toTimeString(date) == ((date \div 60) % 24) * 60 + (date % 60)

\* addMinutes on a clock held as minutes after midnight; `whole` is the
\* rounded number of minutes, NaN an invalid date ("Inval")
addMinutes(clock, whole) ==
    IF IsNaN(clock) \/ IsNaN(whole) THEN NaN
    ELSE LET h == clock \div 60
             m == clock % 60
         IN toTimeString(setHours(h, m + whole))

\* variant that spends the loading time again before every stop
RECURSIVE TimedStopsLoadEachStop(_, _, _, _, _)
TimedStopsLoadEachStop(stops, pos, clock, m, cfg) ==
    IF stops = <<>> THEN <<>>
    ELSE LET s == Head(stops)
             travel == MatrixGet(m, pos, s.coords)
             arrival == addMinutes(clock, IF IsNaN(travel.time) THEN NaN
                                          ELSE RoundMinutes(travel.time))
             duration == s.volume * cfg.unloadingMinPerM3
             departure == addMinutes(arrival, RoundDuration(duration))
         IN <<[id |-> s.id, coords |-> s.coords, volume |-> s.volume,
               endereco |-> s.endereco, originalIndex |-> s.originalIndex,
               arrivalTime |-> arrival, unloadingDurationMin |-> duration,
               departureTime |-> departure]>>
            \o TimedStopsLoadEachStop(Tail(stops), s.coords,
                                      addMinutes(departure, cfg.loadingTimeMin),
                                      m, cfg)

\* the timed stops of r.stops.map(...), from position pos at clock time
RECURSIVE TimedStops(_, _, _, _, _)
TimedStops(stops, pos, clock, m, cfg) ==
    IF stops = <<>> THEN <<>>
    ELSE LET s == Head(stops)
             travel == MatrixGet(m, pos, s.coords)
             arrival == addMinutes(clock, IF IsNaN(travel.time) THEN NaN
                                          ELSE RoundMinutes(travel.time))
             duration == s.volume * cfg.unloadingMinPerM3
             departure == addMinutes(arrival, RoundDuration(duration))
         IN <<[id |-> s.id, coords |-> s.coords, volume |-> s.volume,
               endereco |-> s.endereco, originalIndex |-> s.originalIndex,
               arrivalTime |-> arrival, unloadingDurationMin |-> duration,
               departureTime |-> departure]>>
            \o TimedStops(Tail(stops), s.coords, departure, m, cfg)

\* variant that accumulates the travel times of the legs
RECURSIVE LegsTimes(_, _, _)
LegsTimes(stops, pos, m) ==
    IF stops = <<>> THEN 0
    ELSE Plus(MatrixGet(m, pos, Head(stops).coords).time,
              LegsTimes(Tail(stops), Head(stops).coords, m))

\* dist accumulated over the legs origin -> stop1 -> ... -> stopN
RECURSIVE LegsDist(_, _, _)
LegsDist(stops, pos, m) ==
    IF stops = <<>> THEN 0
    ELSE Plus(MatrixGet(m, pos, Head(stops).coords).dist,
              LegsDist(Tail(stops), Head(stops).coords, m))

\* Number(dist.toFixed(2)) on metres: the nearest hundredth of a km
DistToFixed2(d) == IF IsNaN(d) THEN NaN ELSE ((d + 5) \div 10) * 10

\* variant that reads the return leg from the origin to the last stop
FinalRouteReturnReversed(r, idx, originCoords, m, cfg) ==
    LET timed == TimedStops(r.stops, originCoords,
                            addMinutes(cfg.startTime, cfg.loadingTimeMin), m, cfg)
        currPos == IF timed = <<>> THEN originCoords ELSE timed[Len(timed)].coords
        currTime == IF timed = <<>>
                    THEN addMinutes(cfg.startTime, cfg.loadingTimeMin)
                    ELSE timed[Len(timed)].departureTime
        returnTravel == MatrixGet(m, originCoords, currPos)
        dist == Plus(LegsDist(r.stops, originCoords, m), returnTravel.dist)
    IN [id |-> idx, stops |-> timed, totalVolume |-> r.totalVolume,
        totalDistanceKm |-> DistToFixed2(dist),
        color |-> (idx - 1) % 10,
        startTime |-> cfg.startTime,
        returnToDepotTime |->
            addMinutes(currTime, IF IsNaN(returnTravel.time) THEN NaN
                                 ELSE RoundMinutes(returnTravel.time))]

FinalRoute(r, idx, originCoords, m, cfg) ==
    LET timed == TimedStops(r.stops, originCoords,
                            addMinutes(cfg.startTime, cfg.loadingTimeMin), m, cfg)
        currPos == IF timed = <<>> THEN originCoords ELSE timed[Len(timed)].coords
        currTime == IF timed = <<>>
                    THEN addMinutes(cfg.startTime, cfg.loadingTimeMin)
                    ELSE timed[Len(timed)].departureTime
        returnTravel == MatrixGet(m, currPos, originCoords)
        dist == Plus(LegsDist(r.stops, originCoords, m), returnTravel.dist)
    IN [id |-> idx, stops |-> timed, totalVolume |-> r.totalVolume,
        totalDistanceKm |-> DistToFixed2(dist),
        color |-> (idx - 1) % 10,
        startTime |-> cfg.startTime,
        returnToDepotTime |->
            addMinutes(currTime, IF IsNaN(returnTravel.time) THEN NaN
                                 ELSE RoundMinutes(returnTravel.time))]

FinalRoutes(rs, originCoords, m, cfg) ==
    [idx \in 1..Len(rs) |-> FinalRoute(rs[idx], idx, originCoords, m, cfg)]

----------------------------------------------------------------------------
(* The state of the App component *)

ShiftNames == {"morning", "afternoon"}

initialShiftState ==
    [rawData |-> <<>>, routes |-> <<>>, status |-> "idle",
     unmappedAddresses |-> <<>>]

\* useState(...): the morning shift is shown, both shifts are empty
InitialAppState ==
    [currentShift |-> "morning",
     shifts |-> [s \in ShiftNames |-> initialShiftState]]

\* the component as mounted, no call of handleRun under way
AppAtRest ==
    /\ state = InitialAppState
    /\ runs = <<>>
    /\ lastOutcome = "none"

----------------------------------------------------------------------------
(* processOptimization as a state machine *)

Rows == [volume : Volumes, endereco : RowAddresses]

RECURSIVE SeqsUpTo(_, _)
SeqsUpTo(S, n) ==
    IF n = 0 THEN {<<>>}
    ELSE LET shorter == SeqsUpTo(S, n - 1)
         IN shorter \cup {Append(q, x) : q \in shorter, x \in S}

Pending == [status |-> "pending"]

Init ==
    /\ pc = "origin"
    /\ rawData \in SeqsUpTo(Rows, MaxRows)
    /\ config \in [originAddress : {OriginAddress},
                   truckCapacity : Capacities,
                   startTime : {300},
                   loadingTimeMin : {30},
                   unloadingMinPerM3 : {10}]
    /\ geoCache = [a \in {} |-> NoCoord]
    /\ geoRequests = <<>>
    /\ origin = NoCoord
    /\ i = 0
    /\ allStops = <<>>
    /\ unmapped = <<>>
    /\ coordsMap = <<>>
    /\ matrixRequests = 0
    /\ matrix = createFallbackMatrix
    /\ routes = <<>>
    /\ savings = <<>>
    /\ k = 0
    /\ result = Pending
    /\ failedRows = {}
    /\ matrixAnswer = "none"
    /\ AppAtRest

\* lines 68-75: the origin is geocoded; a failure throws
GeocodeOrigin ==
    /\ pc = "origin"
    /\ \E outcome \in GeoAnswers(config.originAddress, geoCache) :
         LET g == geocodeAddress(config.originAddress, geoCache, geoRequests, outcome)
         IN /\ geoCache' = g.cache
            /\ geoRequests' = g.requests
            /\ pc' = AfterOrigin(g.found)
            /\ IF pc' = "rows"
               THEN /\ origin' = g.coords
                    /\ coordsMap' = CoordsMapSet(<<>>, g.coords)
                    /\ result' = result
               ELSE /\ result' = [status |-> "error", message |-> "Origem invalida."]
                    /\ UNCHANGED <<origin, coordsMap>>
    /\ UNCHANGED <<rawData, config, i, allStops, unmapped, matrixRequests,
                   matrix, routes, savings, k, failedRows, matrixAnswer,
                   appVars>>

\* lines 77-88: one iteration of the row loop
ProcessRow ==
    /\ pc = "rows"
    /\ i < Len(rawData)
    /\ LET row == rawData[i + 1]
       IN \E outcome \in GeoAnswers(row.endereco, geoCache) :
            LET g == geocodeAddress(row.endereco, geoCache, geoRequests, outcome)
            IN /\ geoCache' = g.cache
               /\ geoRequests' = g.requests
               /\ allStops' = allStops \o
                    RowStops(g.found, i, row.volume, g.coords, row.endereco,
                             config.truckCapacity)
               /\ IF g.found
                  THEN /\ coordsMap' = CoordsMapSet(coordsMap, g.coords)
                       /\ UNCHANGED <<unmapped, failedRows>>
                  ELSE /\ unmapped' = Append(unmapped, row.endereco)
                       /\ failedRows' = failedRows \cup {i}
                       /\ UNCHANGED coordsMap
    /\ i' = i + 1
    /\ UNCHANGED <<pc, rawData, config, origin, matrixRequests, matrix, routes,
                   savings, k, result, matrixAnswer,
                   appVars>>

\* lines 90-101: the matrix (live or fallback), the singleton routes and the
\* sorted savings list
BuildMatrix ==
    /\ pc = "rows"
    /\ i = Len(rawData)
    /\ \E outcome \in MatrixOutcomes :
       \E shortLen \in ShortLengths(Len(coordsMap)) :
         LET f == fetchHereMatrix(coordsMap, outcome, shortLen)
             m == IF f.none THEN createFallbackMatrix
                  ELSE [live |-> TRUE, lookup |-> f.lookup]
         IN /\ matrixRequests' = matrixRequests + f.requested
            /\ matrixAnswer' = IF f.requested = 0 THEN "none"
                               ELSE IF FailedAnswer(outcome) THEN "failed"
                               ELSE "ok"
            /\ matrix' = m
            /\ routes' = InitialRoutes(allStops)
            /\ savings' = SortDesc(SavingsFrom(allStops, matrix', origin, 1, 2))
    /\ k' = 0
    /\ pc' = "merge"
    /\ UNCHANGED <<rawData, config, geoCache, geoRequests, origin, i, allStops,
                   unmapped, coordsMap, result, failedRows,
                   appVars>>

\* variant that merges only when both stops sit at an end of their routes
MergeStepEndpointsOnly ==
    /\ pc = "merge"
    /\ k < Len(savings)
    /\ LET sv == savings[k + 1]
           ri == FindRoute(routes, sv.i)
           rj == FindRoute(routes, sv.j)
           atEnd(stops, id) == stops[1].id = id \/ stops[Len(stops)].id = id
       IN routes' = IF /\ CanMerge(routes, ri, rj, config.truckCapacity)
                       /\ atEnd(routes[ri].stops, sv.i)
                       /\ atEnd(routes[rj].stops, sv.j)
                    THEN MergeRoutes(routes, ri, rj, origin, matrix)
                    ELSE routes
    /\ k' = k + 1
    /\ UNCHANGED <<pc, rawData, config, geoCache, geoRequests, origin, i,
                   allStops, unmapped, coordsMap, matrixRequests, matrix,
                   savings, result, failedRows, matrixAnswer,
                   appVars>>

\* lines 103-111: one savings entry
MergeStep ==
    /\ pc = "merge"
    /\ k < Len(savings)
    /\ LET sv == savings[k + 1]
           ri == FindRoute(routes, sv.i)
           rj == FindRoute(routes, sv.j)
       IN routes' = IF CanMerge(routes, ri, rj, config.truckCapacity)
                    THEN MergeRoutes(routes, ri, rj, origin, matrix)
                    ELSE routes
    /\ k' = k + 1
    /\ UNCHANGED <<pc, rawData, config, geoCache, geoRequests, origin, i,
                   allStops, unmapped, coordsMap, matrixRequests, matrix,
                   savings, result, failedRows, matrixAnswer,
                   appVars>>

\* lines 113-146: the schedule pass and the value returned
Finish ==
    /\ pc = "merge"
    /\ k = Len(savings)
    /\ pc' = "done"
    /\ result' = [status |-> "ok",
                  routes |-> FinalRoutes(routes, origin, matrix, config),
                  unmapped |-> unmapped,
                  originCoords |-> origin]
    /\ UNCHANGED <<rawData, config, geoCache, geoRequests, origin, i, allStops,
                   unmapped, coordsMap, matrixRequests, matrix, routes, savings, k,
                   failedRows, matrixAnswer,
                   appVars>>

Next ==
    \/ GeocodeOrigin
    \/ ProcessRow
    \/ BuildMatrix
    \/ MergeStep
    \/ Finish

Spec == Init /\ [][Next]_vars

\* the same run over rows of which some ask for a few litres only
RowsVolumes == {6, 4506}

InitRows ==
    /\ pc = "origin"
    /\ rawData \in SeqsUpTo([volume : RowsVolumes, endereco : RowAddresses],
                             MaxRows - 1)
    /\ config \in [originAddress : {OriginAddress},
                   truckCapacity : Capacities,
                   startTime : {300},
                   loadingTimeMin : {30},
                   unloadingMinPerM3 : {10}]
    /\ geoCache = [a \in {} |-> NoCoord]
    /\ geoRequests = <<>>
    /\ origin = NoCoord
    /\ i = 0
    /\ allStops = <<>>
    /\ unmapped = <<>>
    /\ coordsMap = <<>>
    /\ matrixRequests = 0
    /\ matrix = createFallbackMatrix
    /\ routes = <<>>
    /\ savings = <<>>
    /\ k = 0
    /\ result = Pending
    /\ failedRows = {}
    /\ matrixAnswer = "none"
    /\ AppAtRest

SpecRows == InitRows /\ [][Next]_vars

----------------------------------------------------------------------------
(* nearestNeighborSort applied to stop lists and cost matrices *)

NNAddress(n) == IF n = 0 THEN "A" ELSE "B"

\* a stop list of the given length; bit n of code picks the address of stop n
NNStops(len, code) ==
    [n \in 1..len |->
        [id |-> StopId(n - 1, 0, TRUE),
         coords |-> Position(NNAddress((code \div (2 ^ (n - 1))) % 2)),
         volume |-> 1000,
         endereco |-> NNAddress((code \div (2 ^ (n - 1))) % 2),
         originalIndex |-> n - 1]]

NNInputs == {NNStops(len, code) : len \in 0..MaxPool, code \in 0..(2 ^ MaxPool - 1)}

\* the ordered pairs the sort can look up: from the origin or a stop to a stop
NNPairs ==
    {getKey(Position(a), Position(b)) : a \in {"O", "A", "B"}, b \in {"A", "B"}}

NNTimes == {NaN, 6000, 12000}

\* live matrices with any of the times on each pair, and the estimator
NNMatrices ==
    {[live |-> TRUE, lookup |-> [key \in NNPairs |-> [time |-> t[key], dist |-> 0]]] :
        t \in [NNPairs -> NNTimes]}
    \cup {createFallbackMatrix}

InitNN ==
    /\ pc = "nn"
    /\ allStops \in NNInputs
    /\ matrix \in NNMatrices
    /\ origin = Position(OriginAddress)
    /\ rawData = <<>>
    /\ config = [originAddress |-> OriginAddress, truckCapacity |-> 9000,
                 startTime |-> 300, loadingTimeMin |-> 30, unloadingMinPerM3 |-> 10]
    /\ geoCache = [a \in {} |-> NoCoord]
    /\ geoRequests = <<>>
    /\ i = 0
    /\ unmapped = <<>>
    /\ coordsMap = <<>>
    /\ matrixRequests = 0
    /\ routes = <<>>
    /\ savings = <<>>
    /\ k = 0
    /\ result = Pending
    /\ failedRows = {}
    /\ matrixAnswer = "none"
    /\ AppAtRest

\* one call nearestNeighborSort(allStops, origin, matrix)
SortStops ==
    /\ pc = "nn"
    /\ pc' = "sorted"
    /\ LET run == NNLoop(allStops, origin, matrix, <<>>, 0)
       IN result' = [status |-> "sorted", sorted |-> run.sorted,
                     iterations |-> run.iterations]
    /\ UNCHANGED <<rawData, config, geoCache, geoRequests, origin, i, allStops,
                   unmapped, coordsMap, matrixRequests, matrix, routes, savings,
                   k, failedRows, matrixAnswer,
                   appVars>>

NextNN == SortStops

SpecNN == InitNN /\ [][NextNN]_vars

----------------------------------------------------------------------------
(* Demand expansion applied to one resolved row *)

ExpandVolumes ==
    {1, 4, 6, 10, 11, 16, 2000, 2004, 8996, 9000, 9004, 9006, 9010, 9011,
     18000, 18006, 20000, 27000}

ExpandCapacities == {2500, 4500, 8996, 9000}

InitExpand ==
    /\ pc = "expand"
    /\ rawData \in {<<row>> : row \in [volume : ExpandVolumes, endereco : {"A"}]}
    /\ config \in [originAddress : {OriginAddress},
                   truckCapacity : ExpandCapacities,
                   startTime : {300},
                   loadingTimeMin : {30},
                   unloadingMinPerM3 : {10}]
    /\ geoCache = [a \in {} |-> NoCoord]
    /\ geoRequests = <<>>
    /\ origin = Position(OriginAddress)
    /\ i = 0
    /\ allStops = <<>>
    /\ unmapped = <<>>
    /\ coordsMap = <<>>
    /\ matrixRequests = 0
    /\ matrix = createFallbackMatrix
    /\ routes = <<>>
    /\ savings = <<>>
    /\ k = 0
    /\ result = Pending
    /\ failedRows = {}
    /\ matrixAnswer = "none"
    /\ AppAtRest

\* lines 82-87 for row 0, its address resolved
ExpandOne ==
    /\ pc = "expand"
    /\ pc' = "expanded"
    /\ allStops' = ExpandRow(0, rawData[1].volume, Position(rawData[1].endereco),
                             rawData[1].endereco, config.truckCapacity)
    /\ i' = 1
    /\ UNCHANGED <<rawData, config, geoCache, geoRequests, origin, unmapped,
                   coordsMap, matrixRequests, matrix, routes, savings, k, result,
                   failedRows, matrixAnswer,
                   appVars>>

NextExpand == ExpandOne

SpecExpand == InitExpand /\ [][NextExpand]_vars

----------------------------------------------------------------------------
(* geocodeAddress called any number of times in one process *)

GeoAddresses == {"O", "A", "B"}

InitGeo ==
    /\ pc = "geo"
    /\ geoCache = [a \in {} |-> NoCoord]
    /\ geoRequests = <<>>
    /\ i = 0
    /\ result = Pending
    /\ rawData = <<>>
    /\ config = [originAddress |-> OriginAddress, truckCapacity |-> 9000,
                 startTime |-> 300, loadingTimeMin |-> 30, unloadingMinPerM3 |-> 10]
    /\ origin = NoCoord
    /\ allStops = <<>>
    /\ unmapped = <<>>
    /\ coordsMap = <<>>
    /\ matrixRequests = 0
    /\ matrix = createFallbackMatrix
    /\ routes = <<>>
    /\ savings = <<>>
    /\ k = 0
    /\ failedRows = {}
    /\ matrixAnswer = "none"
    /\ AppAtRest

\* one call geocodeAddress(address): i counts the calls, result is what the
\* caller of the last call received
GeocodeCall ==
    /\ pc = "geo"
    /\ i < MaxCalls
    /\ \E address \in GeoAddresses :
       \E outcome \in GeoAnswers(address, geoCache) :
         LET g == geocodeAddress(address, geoCache, geoRequests, outcome)
         IN /\ geoCache' = g.cache
            /\ geoRequests' = g.requests
            /\ result' = [status |-> "geocoded", address |-> address,
                          found |-> g.found, coords |-> g.coords]
    /\ i' = i + 1
    /\ UNCHANGED <<pc, rawData, config, origin, allStops, unmapped, coordsMap,
                   matrixRequests, matrix, routes, savings, k, failedRows,
                   matrixAnswer,
                   appVars>>

NextGeo == GeocodeCall

SpecGeo == InitGeo /\ [][NextGeo]_vars

----------------------------------------------------------------------------
(* addMinutes applied again and again to a clock *)

ClockStarts == {0, 300, 719, 1380, 1439}
ClockSteps == {0, 1, 59, 61, 1440, 1500}

InitClock ==
    /\ pc = "clock"
    /\ config \in [originAddress : {OriginAddress}, truckCapacity : {9000},
                   startTime : ClockStarts, loadingTimeMin : {30},
                   unloadingMinPerM3 : {10}]
    /\ result = [status |-> "clock", time |-> config.startTime, total |-> 0,
                 before |-> config.startTime, last |-> 0]
    /\ i = 0
    /\ geoCache = [a \in {} |-> NoCoord]
    /\ geoRequests = <<>>
    /\ rawData = <<>>
    /\ origin = NoCoord
    /\ allStops = <<>>
    /\ unmapped = <<>>
    /\ coordsMap = <<>>
    /\ matrixRequests = 0
    /\ matrix = createFallbackMatrix
    /\ routes = <<>>
    /\ savings = <<>>
    /\ k = 0
    /\ failedRows = {}
    /\ matrixAnswer = "none"
    /\ AppAtRest

\* one call addMinutes(time, minutes) on the clock the last call returned:
\* i counts the calls, result.total the minutes added since the start
AddMinutes ==
    /\ pc = "clock"
    /\ i < MaxCalls
    /\ \E minutes \in ClockSteps :
         result' = [status |-> "clock",
                    time |-> addMinutes(result.time, minutes),
                    total |-> result.total + minutes,
                    before |-> result.time,
                    last |-> minutes]
    /\ i' = i + 1
    /\ UNCHANGED <<pc, rawData, config, geoCache, geoRequests, origin, allStops,
                   unmapped, coordsMap, matrixRequests, matrix, routes, savings,
                   k, failedRows, matrixAnswer,
                   appVars>>

NextClock == AddMinutes

SpecClock == InitClock /\ [][NextClock]_vars

-----------------------------------------------------------------------------
(* The schedule pass applied to route lists, matrices and configurations *)

SchedVolumes == {3000, 4500}
SchedStartTimes == {300, 1380}
SchedRates == {0, 10}

\* a stop list of the given length; bit n of code picks the address of stop n
SchedStops(len, code, volume) ==
    [n \in 1..len |->
        [id |-> StopId(n - 1, 0, TRUE),
         coords |-> Position(NNAddress((code \div (2 ^ (n - 1))) % 2)),
         volume |-> volume,
         endereco |-> NNAddress((code \div (2 ^ (n - 1))) % 2),
         originalIndex |-> n - 1]]

SchedRoute(id, stops) ==
    [id |-> id, stops |-> stops,
     totalVolume |-> Len(stops) * (IF stops = <<>> THEN 0 ELSE stops[1].volume)]

\* the route lists the merge pass can leave: the stops of a list in one route
\* or cut into two, each within the capacity
SchedRouteLists(truckCapacity) ==
    {rs \in
        {IF cut = 0 \/ cut >= Len(stops)
         THEN (IF stops = <<>> THEN <<>> ELSE <<SchedRoute(0, stops)>>)
         ELSE <<SchedRoute(0, SubSeq(stops, 1, cut)),
                SchedRoute(cut, SubSeq(stops, cut + 1, Len(stops)))>> :
           stops \in {SchedStops(len, code, volume) :
                        len \in 0..MaxStops, code \in 0..(2 ^ MaxStops - 1),
                        volume \in SchedVolumes},
           cut \in 0..MaxStops} :
        \A n \in 1..Len(rs) :
            rs[n].totalVolume <= truckCapacity + CapacityTolerance}

\* the matrix a run can hold: the estimator, the complete live answer and the
\* live answer cut short, over origin, A and B
SchedPoints == <<Position("O"), Position("A"), Position("B")>>

SchedMatrices ==
    {createFallbackMatrix}
    \cup {[live |-> TRUE, lookup |-> fetchHereMatrix(SchedPoints, outcome, len).lookup] :
            outcome \in {"ok", "short"}, len \in ShortLengths(Len(SchedPoints))}

InitSchedule ==
    /\ pc = "schedule"
    /\ config \in [originAddress : {OriginAddress},
                   truckCapacity : {9000},
                   startTime : SchedStartTimes,
                   loadingTimeMin : {30},
                   unloadingMinPerM3 : SchedRates]
    /\ routes \in SchedRouteLists(config.truckCapacity)
    /\ matrix \in SchedMatrices
    /\ origin = Position(OriginAddress)
    /\ rawData = <<>>
    /\ geoCache = [a \in {} |-> NoCoord]
    /\ geoRequests = <<>>
    /\ i = 0
    /\ allStops = <<>>
    /\ unmapped = <<>>
    /\ coordsMap = <<>>
    /\ matrixRequests = 0
    /\ savings = <<>>
    /\ k = 0
    /\ result = Pending
    /\ failedRows = {}
    /\ matrixAnswer = "none"
    /\ AppAtRest

\* lines 113-146 on the route list
ScheduleRoutes ==
    /\ pc = "schedule"
    /\ pc' = "scheduled"
    /\ result' = [status |-> "ok",
                  routes |-> FinalRoutes(routes, origin, matrix, config),
                  unmapped |-> unmapped,
                  originCoords |-> origin]
    /\ UNCHANGED <<rawData, config, geoCache, geoRequests, origin, i, allStops,
                   unmapped, coordsMap, matrixRequests, matrix, routes, savings, k,
                   failedRows, matrixAnswer,
                   appVars>>

NextSchedule == ScheduleRoutes

SpecSchedule == InitSchedule /\ [][NextSchedule]_vars

----------------------------------------------------------------------------
(* The merge pass from the state the row loop and the matrix leave behind,  *)
(* over inputs of small rows that all resolved                              *)

MergeVolumes == <<2000, 4500>>
MergeAnswers == {"network", "short", "ok"}

\* A lies on one side of the depot and C on the other
MergeAddress(n) == IF n = 0 THEN "A" ELSE "C"

\* rows whose addresses and volumes are picked by the bits of two codes
MergeRows(len, code, vcode) ==
    [n \in 1..len |->
        [volume |-> MergeVolumes[((vcode \div (2 ^ (n - 1))) % 2) + 1],
         endereco |-> MergeAddress((code \div (2 ^ (n - 1))) % 2)]]

MergeInputs ==
    {MergeRows(len, code, vcode) :
        len \in 0..MaxMergeStops,
        code \in 0..(2 ^ MaxMergeStops - 1),
        vcode \in 0..(2 ^ MaxMergeStops - 1)}

\* allStops after the row loop over resolved rows n..Len(rows)
RECURSIVE ExpandAll(_, _, _)
ExpandAll(rows, n, truckCapacity) ==
    IF n > Len(rows) THEN <<>>
    ELSE RowStops(TRUE, n - 1, rows[n].volume, Position(rows[n].endereco),
                  rows[n].endereco, truckCapacity)
         \o ExpandAll(rows, n + 1, truckCapacity)

\* coordsMap after the row loop
RECURSIVE CoordsAll(_, _, _)
CoordsAll(rows, n, map) ==
    IF n > Len(rows) THEN map
    ELSE CoordsAll(rows, n + 1, CoordsMapSet(map, Position(rows[n].endereco)))

InitMerge ==
    /\ pc = "merge"
    /\ rawData \in MergeInputs
    /\ config = [originAddress |-> OriginAddress, truckCapacity |-> 9000,
                 startTime |-> 300, loadingTimeMin |-> 30, unloadingMinPerM3 |-> 10]
    /\ origin = Position(OriginAddress)
    /\ i = Len(rawData)
    /\ allStops = ExpandAll(rawData, 1, config.truckCapacity)
    /\ unmapped = <<>>
    /\ failedRows = {}
    /\ coordsMap = CoordsAll(rawData, 1, CoordsMapSet(<<>>, origin))
    /\ geoCache = [a \in {OriginAddress} \cup {rawData[n].endereco : n \in 1..Len(rawData)}
                     |-> Position(a)]
    /\ geoRequests = [n \in 1..Len(coordsMap) |->
                        CHOOSE a \in DOMAIN geoCache : Position(a) = coordsMap[n]]
    /\ \E outcome \in MergeAnswers :
       \E shortLen \in ShortLengths(Len(coordsMap)) :
         LET f == fetchHereMatrix(coordsMap, outcome, shortLen)
             m == IF f.none THEN createFallbackMatrix
                  ELSE [live |-> TRUE, lookup |-> f.lookup]
         IN /\ matrixRequests = f.requested
            /\ matrixAnswer = IF f.requested = 0 THEN "none"
                              ELSE IF FailedAnswer(outcome) THEN "failed"
                              ELSE "ok"
            /\ matrix = m
    /\ routes = InitialRoutes(allStops)
    /\ savings = SortDesc(SavingsFrom(allStops, matrix, origin, 1, 2))
    /\ k = 0
    /\ result = Pending
    /\ AppAtRest

NextMerge ==
    \/ MergeStep
    \/ Finish

SpecMerge == InitMerge /\ [][NextMerge]_vars

----------------------------------------------------------------------------
(* The resequencer and the savings list on live matrices that do not cover  *)
(* every place of the stops                                                 *)

\* point lists a matrix was requested for
PartialPoints ==
    {<<Position("O"), Position("A")>>,
     <<Position("O"), Position("B")>>,
     <<Position("A"), Position("B")>>,
     <<Position("O"), Position("A"), Position("B")>>}

PartialMatrices ==
    {[live |-> TRUE, lookup |-> fetchHereMatrix(points, "ok", 0).lookup] :
        points \in PartialPoints}

\* stop lists of up to one stop more than the pool of the resequencer spec
UnknownInputs ==
    {NNStops(len, code) : len \in 0..(MaxPool + 1), code \in 0..(2 ^ (MaxPool + 1) - 1)}

InitUnknown ==
    /\ pc = "nn"
    /\ allStops \in UnknownInputs
    /\ matrix \in PartialMatrices
    /\ origin = Position(OriginAddress)
    /\ rawData = <<>>
    /\ config = [originAddress |-> OriginAddress, truckCapacity |-> 9000,
                 startTime |-> 300, loadingTimeMin |-> 30, unloadingMinPerM3 |-> 10]
    /\ geoCache = [a \in {} |-> NoCoord]
    /\ geoRequests = <<>>
    /\ i = 0
    /\ unmapped = <<>>
    /\ coordsMap = <<>>
    /\ matrixRequests = 0
    /\ routes = <<>>
    /\ savings = <<>>
    /\ k = 0
    /\ result = Pending
    /\ failedRows = {}
    /\ matrixAnswer = "none"
    /\ AppAtRest

\* lines 94-101 on allStops
ListSavings ==
    /\ pc = "sorted"
    /\ pc' = "listed"
    /\ savings' = SortDesc(SavingsFrom(allStops, matrix, origin, 1, 2))
    /\ UNCHANGED <<rawData, config, geoCache, geoRequests, origin, i, allStops,
                   unmapped, coordsMap, matrixRequests, matrix, routes, k,
                   result, failedRows, matrixAnswer,
                   appVars>>

NextUnknown ==
    \/ SortStops
    \/ ListSavings

SpecUnknown == InitUnknown /\ [][NextUnknown]_vars

----------------------------------------------------------------------------
(* The App component: loading a workbook, switching the shift shown and    *)
(* running the optimizer, which settles some time after handleRun called it *)

MaxRuns == 2

\* the rows parsed from the sheet of a shift: one row stands for them
Sheet(s) == <<[sheet |-> s]>>

\* what processOptimization(rawData, ...) returns when it does not throw:
\* routes and unmapped addresses that belong to the rows it was given
OptimizationResult(data) ==
    [routes |-> <<[stopsOf |-> data]>>, unmapped |-> <<[failedOf |-> data]>>]

\* the optimizer itself is not stepped while the App is
OptimizerAtRest ==
    /\ pc = "app"
    /\ rawData = <<>>
    /\ config = [originAddress |-> OriginAddress, truckCapacity |-> 9000,
                 startTime |-> 420, loadingTimeMin |-> 20, unloadingMinPerM3 |-> 10]
    /\ geoCache = [a \in {} |-> NoCoord]
    /\ geoRequests = <<>>
    /\ origin = NoCoord
    /\ i = 0
    /\ allStops = <<>>
    /\ unmapped = <<>>
    /\ coordsMap = <<>>
    /\ matrixRequests = 0
    /\ matrix = createFallbackMatrix
    /\ routes = <<>>
    /\ savings = <<>>
    /\ k = 0
    /\ result = Pending
    /\ failedRows = {}
    /\ matrixAnswer = "none"

InitApp ==
    /\ OptimizerAtRest
    /\ AppAtRest

\* reader.onload of handleFileChange: both shifts start again from
\* initialShiftState, each with the rows of its sheet if the workbook has one
LoadFile ==
    /\ \E sheets \in SUBSET ShiftNames :
         state' = [state EXCEPT !.shifts =
                      [s \in ShiftNames |->
                          [initialShiftState EXCEPT !.rawData =
                              IF s \in sheets THEN Sheet(s) ELSE <<>>]]]
    /\ UNCHANGED <<runs, lastOutcome>>
    /\ UNCHANGED optimizerVars

\* the MANHA / TARDE buttons: setState(p => ({...p, currentShift}))
SwitchShift ==
    /\ \E s \in ShiftNames :
         /\ s # state.currentShift
         /\ state' = [state EXCEPT !.currentShift = s]
    /\ UNCHANGED <<runs, lastOutcome>>
    /\ UNCHANGED optimizerVars

\* handleRun of the single-shift App up to its await: the button is there
\* when the shift shown has rows and is enabled unless that shift is
\* geocoding or solving; the call keeps the rows of the shift shown
HandleRun ==
    LET cur == state.currentShift
        activeShift == state.shifts[cur]
    IN /\ activeShift.rawData # <<>>
       /\ activeShift.status \notin {"geocoding", "solving"}
       /\ Len(runs) < MaxRuns
       /\ state' = [state EXCEPT !.shifts[cur].status = "geocoding"]
       /\ runs' = Append(runs, [rawData |-> activeShift.rawData,
                                startedOn |-> cur])
       /\ UNCHANGED lastOutcome
       /\ UNCHANGED optimizerVars

\* processOptimization returned: setState(prev => ...) writes the result
\* under prev.currentShift
RunReturns ==
    /\ \E n \in 1..Len(runs) :
         LET res == OptimizationResult(runs[n].rawData)
             cur == state.currentShift
         IN /\ state' = [state EXCEPT !.shifts[cur] =
                            [@ EXCEPT !.status = "complete",
                                      !.routes = res.routes,
                                      !.unmappedAddresses = res.unmapped]]
            /\ runs' = RemoveAt(runs, n)
    /\ lastOutcome' = "returned"
    /\ UNCHANGED optimizerVars

\* processOptimization threw: the catch marks prev.currentShift
RunThrows ==
    /\ \E n \in 1..Len(runs) :
         /\ state' = [state EXCEPT !.shifts[state.currentShift].status = "error"]
         /\ runs' = RemoveAt(runs, n)
    /\ lastOutcome' = "threw"
    /\ UNCHANGED optimizerVars

NextShift ==
    \/ LoadFile
    \/ SwitchShift
    \/ HandleRun
    \/ RunReturns
    \/ RunThrows

SpecShift == InitApp /\ [][NextShift]_vars

\* the App that runs both shifts in one handleRun

isProcessing == \E s \in ShiftNames : state.shifts[s].status = "geocoding"

\* the last setState of the try block: a shift that was run is complete
\* with its result, the other is left as it is
Committed(st, morningRes, afternoonRes) ==
    [st EXCEPT !.shifts =
        [s \in ShiftNames |->
            LET res == IF s = "morning" THEN morningRes ELSE afternoonRes
            IN IF res # <<>>
               THEN [st.shifts[s] EXCEPT !.status = "complete",
                                         !.routes = res[1].routes,
                                         !.unmappedAddresses = res[1].unmapped]
               ELSE st.shifts[s]]]

\* the setState of the catch block
Caught(st) ==
    [st EXCEPT !.shifts =
        [s \in ShiftNames |->
            [st.shifts[s] EXCEPT !.status =
                IF @ = "geocoding" THEN "error" ELSE @]]]

\* handleRun up to its first await: enabled unless a shift is geocoding,
\* it returns at once if neither shift has rows; morningRes is <<>> for null
HandleRunAll ==
    LET hasMorning == state.shifts["morning"].rawData # <<>>
        hasAfternoon == state.shifts["afternoon"].rawData # <<>>
    IN /\ ~isProcessing
       /\ hasMorning \/ hasAfternoon
       /\ Len(runs) < MaxRuns
       /\ state' = [state EXCEPT !.shifts =
                       [s \in ShiftNames |->
                           [state.shifts[s] EXCEPT !.status =
                               IF state.shifts[s].rawData # <<>>
                               THEN "geocoding" ELSE "idle"]]]
       /\ runs' = Append(runs,
                     [rawData |-> [s \in ShiftNames |-> state.shifts[s].rawData],
                      morningRes |-> <<>>,
                      awaiting |-> IF hasMorning THEN "morning" ELSE "afternoon"])
       /\ UNCHANGED lastOutcome
       /\ UNCHANGED optimizerVars

\* the morning optimization returned: the afternoon one is awaited next, or,
\* if the afternoon has no rows, the result is committed
MorningReturns ==
    /\ \E n \in 1..Len(runs) :
         /\ runs[n].awaiting = "morning"
         /\ LET res == <<OptimizationResult(runs[n].rawData["morning"])>>
            IN IF runs[n].rawData["afternoon"] # <<>>
               THEN /\ runs' = [runs EXCEPT ![n].morningRes = res,
                                            ![n].awaiting = "afternoon"]
                    /\ UNCHANGED <<state, lastOutcome>>
               ELSE /\ state' = Committed(state, res, <<>>)
                    /\ runs' = RemoveAt(runs, n)
                    /\ lastOutcome' = "committed"
    /\ UNCHANGED optimizerVars

MorningThrows ==
    /\ \E n \in 1..Len(runs) :
         /\ runs[n].awaiting = "morning"
         /\ state' = Caught(state)
         /\ runs' = RemoveAt(runs, n)
    /\ lastOutcome' = "morning threw"
    /\ UNCHANGED optimizerVars

AfternoonReturns ==
    /\ \E n \in 1..Len(runs) :
         /\ runs[n].awaiting = "afternoon"
         /\ state' = Committed(state, runs[n].morningRes,
                        <<OptimizationResult(runs[n].rawData["afternoon"])>>)
         /\ runs' = RemoveAt(runs, n)
    /\ lastOutcome' = "committed"
    /\ UNCHANGED optimizerVars

\* variant that keeps the morning result when the afternoon run throws
AfternoonThrowsKeepsMorning ==
    /\ \E n \in 1..Len(runs) :
         /\ runs[n].awaiting = "afternoon"
         /\ state' = Caught(Committed(state, runs[n].morningRes, <<>>))
         /\ runs' = RemoveAt(runs, n)
    /\ lastOutcome' = "afternoon threw"
    /\ UNCHANGED optimizerVars

AfternoonThrows ==
    /\ \E n \in 1..Len(runs) :
         /\ runs[n].awaiting = "afternoon"
         /\ state' = Caught(state)
         /\ runs' = RemoveAt(runs, n)
    /\ lastOutcome' = "afternoon threw"
    /\ UNCHANGED optimizerVars

NextTwoShift ==
    \/ LoadFile
    \/ SwitchShift
    \/ HandleRunAll
    \/ MorningReturns
    \/ MorningThrows
    \/ AfternoonReturns
    \/ AfternoonThrows

SpecTwoShift == InitApp /\ [][NextTwoShift]_vars

-----------------------------------------------------------------------------
(* Properties of the merge pass *)

RECURSIVE SumVolumes(_)
SumVolumes(stops) ==
    IF stops = <<>> THEN 0 ELSE Head(stops).volume + SumVolumes(Tail(stops))

StopIds(stops) == {stops[p].id : p \in 1..Len(stops)}

\* number of places (route, position) of the route list rs holding stop id
Places(rs, id) ==
    Cardinality({<<n, p>> \in (1..Len(rs)) \X (1..Len(allStops)) :
                    p <= Len(rs[n].stops) /\ rs[n].stops[p].id = id})

InMergePass == pc = "merge"
Returned == pc = "done" /\ result.status = "ok"

\* C1: every active route of the merge pass and every returned route carries
\* at most truckCapacity + 0.01
CapacityBound ==
    /\ InMergePass \/ Returned =>
         \A n \in 1..Len(routes) :
            routes[n].totalVolume <= config.truckCapacity + 10
    /\ Returned =>
         \A n \in 1..Len(result.routes) :
            /\ result.routes[n].totalVolume <= config.truckCapacity + 10
            /\ SumVolumes(result.routes[n].stops) <= config.truckCapacity + 10

\* a returned route built by a merge whose load sits on the tolerance
CapacityBoundWitness ==
    /\ Returned
    /\ \E n \in 1..Len(result.routes) :
         /\ Len(result.routes[n].stops) >= 2
         /\ result.routes[n].totalVolume = config.truckCapacity + 10
    /\ \E a, b \in 1..Len(result.routes) :
         /\ a # b
         /\ result.routes[a].totalVolume + result.routes[b].totalVolume
              > config.truckCapacity + 10

\* C2: during the merge pass and in the returned routes every stop of the
\* expansion sits in exactly one place, and the routes hold nothing else
StopOwnership ==
    /\ InMergePass \/ Returned =>
         /\ \A q \in 1..Len(allStops) : Places(routes, allStops[q].id) = 1
         /\ \A n \in 1..Len(routes) : StopIds(routes[n].stops) \subseteq StopIds(allStops)
    /\ Returned =>
         /\ \A q \in 1..Len(allStops) : Places(result.routes, allStops[q].id) = 1
         /\ \A n \in 1..Len(result.routes) :
              StopIds(result.routes[n].stops) \subseteq StopIds(allStops)

\* a returned solution in which routes were absorbed from both sides of the
\* surviving one
StopOwnershipWitness ==
    /\ Returned
    /\ \E n \in 1..Len(result.routes) : Len(result.routes[n].stops) >= 3
    /\ Len(result.routes) >= 2

\* C3: totalVolume of every active route is the sum of its stops' volumes
VolumeBookkeeping ==
    InMergePass \/ Returned =>
        \A n \in 1..Len(routes) :
            routes[n].totalVolume = SumVolumes(routes[n].stops)

\* a route that has absorbed two others during the pass
VolumeBookkeepingWitness ==
    /\ InMergePass
    /\ k > 0
    /\ \E n \in 1..Len(routes) :
         /\ Len(routes[n].stops) >= 3
         /\ routes[n].totalVolume > routes[n].stops[1].volume

\* C4: a step of the merge pass either leaves the route list as it is, or
\* removes exactly one route and leaves one route whose stop ids are the union
\* of two routes of the list before, all other routes kept
MergeMonotonic ==
    [][InMergePass /\ k' = k + 1 =>
         \/ routes' = routes
         \/ /\ Len(routes') = Len(routes) - 1
            /\ \E a, b \in 1..Len(routes) : \E c \in 1..Len(routes') :
                 /\ a # b
                 /\ StopIds(routes'[c].stops) =
                      StopIds(routes[a].stops) \cup StopIds(routes[b].stops)
                 /\ \A n \in 1..Len(routes) :
                      n \notin {a, b} =>
                        \E q \in 1..Len(routes') : q # c /\ routes'[q] = routes[n]]_vars

\* the pass has merged at least once and skipped at least once
MergeMonotonicWitness ==
    /\ InMergePass
    /\ Len(routes) < Len(allStops)
    /\ k > Len(allStops) - Len(routes)


----------------------------------------------------------------------------
(* Properties of the resequencer *)

Occurrences(stops, id) == Cardinality({p \in 1..Len(stops) : stops[p].id = id})

\* C5: nearestNeighborSort returns a permutation of its input (same length,
\* every stop id as often as in the input) after exactly |stops| iterations
NNPermutation ==
    pc = "sorted" =>
        /\ Len(result.sorted) = Len(allStops)
        /\ \A q \in 1..Len(allStops) :
              Occurrences(result.sorted, allStops[q].id)
                = Occurrences(allStops, allStops[q].id)
        /\ \A q \in 1..Len(result.sorted) : \E p \in 1..Len(allStops) :
              result.sorted[q] = allStops[p]
        /\ result.iterations = Len(allStops)

\* a sort of three stops in which no time from the origin compares (all NaN),
\* so the scan finds no candidate and the last stop is taken first
NNPermutationWitness ==
    /\ pc = "sorted"
    /\ Len(allStops) = 3
    /\ \A q \in 1..3 : IsNaN(MatrixGet(matrix, origin, allStops[q].coords).time)
    /\ result.sorted[1] = allStops[3]
    /\ result.sorted # allStops

----------------------------------------------------------------------------
(* Properties of demand expansion *)

\* full-capacity stops the while loop emits for volume v and capacity c
FullCount(v, c) == IF v > c THEN (v - 1) \div c ELSE 0

\* what is left for the final stop
Remainder(v, c) == v - FullCount(v, c) * c

Volumes0(stops) == [p \in 1..Len(stops) |-> stops[p].volume]

\* C6 as stated: full stops while the remaining volume is > C, then a final
\* stop with the remainder if and only if the remainder is > 0.001
ExpansionThousandth ==
    pc = "expanded" =>
        LET v == rawData[1].volume
            c == config.truckCapacity
            n == FullCount(v, c)
            r == Remainder(v, c)
        IN /\ \A p \in 1..Len(allStops) : p <= n => allStops[p].volume = c
           /\ Len(allStops) = n + (IF r > 1 THEN 1 ELSE 0)
           /\ r > 1 => /\ allStops[n + 1].volume - r <= 5
                       /\ r - allStops[n + 1].volume <= 5

\* C6 amended: the final stop is emitted if and only if the remainder is
\* > 0.01, and it carries the remainder rounded to two decimals; V=20, C=9
\* gives 9, 9, 2 and V=18, C=9 gives 9, 9
ExpansionHundredth ==
    pc = "expanded" =>
        LET v == rawData[1].volume
            c == config.truckCapacity
            n == FullCount(v, c)
            r == Remainder(v, c)
        IN /\ \A p \in 1..Len(allStops) : p <= n => allStops[p].volume = c
           /\ Len(allStops) = n + (IF r > 10 THEN 1 ELSE 0)
           /\ r > 10 => /\ allStops[n + 1].volume % 10 = 0
                        /\ allStops[n + 1].volume - r <= 5
                        /\ r - allStops[n + 1].volume < 5
           /\ v = 20000 /\ c = 9000 => Volumes0(allStops) = <<9000, 9000, 2000>>
           /\ v = 18000 /\ c = 9000 => Volumes0(allStops) = <<9000, 9000>>

\* the scenario of the specification: 20 against 9 gives 9, 9 and 2
ExpansionWitness ==
    /\ pc = "expanded"
    /\ rawData[1].volume = 20000
    /\ config.truckCapacity = 9000
    /\ Volumes0(allStops) = <<9000, 9000, 2000>>


----------------------------------------------------------------------------
(* Properties of error handling *)

\* addresses of the rows processed so far whose geocoding failed, in row order
RECURSIVE FailedAddresses(_)
FailedAddresses(n) ==
    IF n = 0 THEN <<>>
    ELSE IF (n - 1) \in failedRows
    THEN Append(FailedAddresses(n - 1), rawData[n].endereco)
    ELSE FailedAddresses(n - 1)

ReturnedStops ==
    UNION {{result.routes[n].stops[p] : p \in 1..Len(result.routes[n].stops)} :
              n \in 1..Len(result.routes)}

OriginFailureAborts ==
    /\ pc # "origin" /\ origin = NoCoord => pc = "error"
    /\ pc = "error" =>
         /\ geoRequests = <<config.originAddress>>
         /\ matrixRequests = 0
         /\ i = 0
         /\ allStops = <<>> /\ unmapped = <<>> /\ routes = <<>>
         /\ result.status = "error"
         /\ DOMAIN result = {"status", "message"}

\* the run ended on the origin with rows waiting
OriginFailureWitness ==
    /\ pc = "error"
    /\ Len(rawData) = MaxRows
    /\ origin = NoCoord

\* C9 as stated: a run that produced no stop does not return successfully
NoValidStopsFails ==
    pc = "done" /\ Len(allStops) = 0 => result.status # "ok"

\* C10 as stated: after a failed matrix request the run uses the estimator,
\* no error reaches the caller and stops give routes
MatrixFailureFallsBack ==
    matrixAnswer = "failed" =>
        /\ ~matrix.live
        /\ pc # "error"
        /\ pc = "done" =>
             /\ result.status = "ok"
             /\ Len(allStops) > 0 => Len(result.routes) > 0

----------------------------------------------------------------------------
(* Properties of the geocode cache *)

\* external requests issued so far for an address
RequestCount(requests, address) ==
    Cardinality({p \in 1..Len(requests) : requests[p] = address})

----------------------------------------------------------------------------
(* Properties of the schedule *)

\* every leg origin -> stop1 -> ... -> stopN has a travel time that is a number
RECURSIVE LegsKnown(_, _, _)
LegsKnown(stops, pos, m) ==
    stops = <<>> \/
       /\ ~IsNaN(MatrixGet(m, pos, Head(stops).coords).time)
       /\ LegsKnown(Tail(stops), Head(stops).coords, m)

\* minutes from midnight of the start day to the departure from the last stop
RECURSIVE MinutesOnRoad(_, _, _, _)
MinutesOnRoad(stops, pos, m, cfg) ==
    IF stops = <<>> THEN 0
    ELSE RoundMinutes(MatrixGet(m, pos, Head(stops).coords).time)
         + RoundDuration(Head(stops).volume * cfg.unloadingMinPerM3)
         + MinutesOnRoad(Tail(stops), Head(stops).coords, m, cfg)

LastDeparture(r) ==
    config.startTime + config.loadingTimeMin
    + MinutesOnRoad(r.stops, origin, matrix, config)

\* arrival <= departure at every stop, departure <= next arrival
ClockOrdered(timed) ==
    /\ \A p \in 1..Len(timed) : timed[p].arrivalTime <= timed[p].departureTime
    /\ \A p \in 1..(Len(timed) - 1) :
          timed[p].departureTime <= timed[p + 1].arrivalTime

\* C12 as stated: the clock values of every returned route are ordered
\* whenever the travel times are numbers
ScheduleOrdered ==
    pc = "scheduled" =>
        \A n \in 1..Len(result.routes) :
            LegsKnown(routes[n].stops, origin, matrix) =>
                ClockOrdered(result.routes[n].stops)

\* C12 amended: the clock values of a returned route are ordered when its
\* last departure falls before 24:00 of the start day; a later departure
\* wraps past midnight and reads earlier than the value before it
ScheduleOrderedWithinDay ==
    pc = "scheduled" =>
        \A n \in 1..Len(result.routes) :
            LegsKnown(routes[n].stops, origin, matrix) =>
                /\ LastDeparture(routes[n]) < 1440 =>
                      ClockOrdered(result.routes[n].stops)
                /\ LastDeparture(routes[n]) \in 1440..2879 =>
                      ~ClockOrdered(result.routes[n].stops)

\* a three-stop route scheduled within the day with real unloading times,
\* next to a run that crosses midnight
ScheduleOrderedWitness ==
    /\ pc = "scheduled"
    /\ config.unloadingMinPerM3 > 0
    /\ \E n \in 1..Len(result.routes) :
         /\ Len(result.routes[n].stops) = 3
         /\ matrix.live
         /\ LegsKnown(routes[n].stops, origin, matrix)
         /\ LastDeparture(routes[n]) < 1440
         /\ result.routes[n].stops[1].arrivalTime
              < result.routes[n].stops[1].departureTime
         /\ result.routes[n].stops[2].departureTime
              < result.routes[n].stops[3].arrivalTime

----------------------------------------------------------------------------
(* Properties of the savings pass *)

\* C13: a run whose expansion gives exactly two stops with a positive saving
\* and a joint volume within the capacity returns exactly one route, and
\* that route holds both stops
TwoStopsOneRoute ==
    Returned /\ Len(allStops) = 2
      /\ Positive(SavingValue(matrix, origin, allStops[1], allStops[2]))
      /\ allStops[1].volume + allStops[2].volume <= config.truckCapacity
    => /\ Len(result.routes) = 1
       /\ StopIds(result.routes[1].stops) = {allStops[1].id, allStops[2].id}
       /\ Len(result.routes[1].stops) = 2

\* two rows at different addresses filling the truck exactly, merged on the
\* live matrix
TwoStopsOneRouteWitness ==
    /\ Returned
    /\ Len(allStops) = 2
    /\ matrix.live
    /\ allStops[1].coords # allStops[2].coords
    /\ Positive(SavingValue(matrix, origin, allStops[1], allStops[2]))
    /\ allStops[1].volume + allStops[2].volume = config.truckCapacity
    /\ Len(result.routes) = 1
    /\ Len(result.routes[1].stops) = 2

\* C14 as stated: every stop of the expansion has a volume in (0, capacity]
StopVolumeInRange ==
    pc = "expanded" =>
        \A p \in 1..Len(allStops) :
            /\ allStops[p].volume > 0
            /\ allStops[p].volume <= config.truckCapacity

\* indices of the routes of rs that hold stop id
Holders(rs, id) == {n \in 1..Len(rs) : id \in StopIds(rs[n].stops)}

\* a and b sit in two different routes whose joint load is within capacity
\* plus 0.01
Mergeable(rs, a, b, truckCapacity) ==
    \E n \in Holders(rs, a) : \E q \in Holders(rs, b) :
        /\ n # q
        /\ rs[n].totalVolume + rs[q].totalVolume <= truckCapacity + 10

\* the step from rs to after joined a and b into one route
Joined(rs, after, a, b) ==
    /\ Len(after) = Len(rs) - 1
    /\ \E c \in 1..Len(after) : {a, b} \subseteq StopIds(after[c].stops)

\* the route list after the first n savings entries
RECURSIVE RoutesAfter(_)
RoutesAfter(n) ==
    IF n = 0 THEN InitialRoutes(allStops)
    ELSE LET rs == RoutesAfter(n - 1)
             ri == FindRoute(rs, savings[n].i)
             rj == FindRoute(rs, savings[n].j)
         IN IF CanMerge(rs, ri, rj, config.truckCapacity)
            THEN MergeRoutes(rs, ri, rj, origin, matrix)
            ELSE rs

\* position of stop id in a stop list, 0 if absent
PositionIn(stops, id) ==
    IF \E p \in 1..Len(stops) : stops[p].id = id
    THEN CHOOSE p \in 1..Len(stops) : stops[p].id = id
    ELSE 0

\* C15: a step of the merge pass joins the two stops of its savings entry
\* if and only if they sit in two different routes whose joint totalVolume is
\* <= capacity + 0.01, wherever they stand inside their routes; otherwise the
\* route list is left as it is
MergeIffMergeable ==
    [][InMergePass /\ k' = k + 1 =>
         LET sv == savings[k + 1]
         IN /\ Mergeable(routes, sv.i, sv.j, config.truckCapacity)
                 <=> Joined(routes, routes', sv.i, sv.j)
            /\ ~Mergeable(routes, sv.i, sv.j, config.truckCapacity)
                 => routes' = routes]_vars

\* an earlier entry of the pass merged although one of its stops stood in
\* the middle of a route of three
MergeIffMergeableWitness ==
    /\ InMergePass
    /\ routes = RoutesAfter(k)
    /\ \E n \in 0..(k - 1) : \E id \in {savings[n + 1].i, savings[n + 1].j} :
         LET before == RoutesAfter(n)
             r == FindRoute(before, id)
         IN /\ r # 0
            /\ Len(before[r].stops) = 3
            /\ PositionIn(before[r].stops, id) = 2
            /\ Len(RoutesAfter(n + 1)) = Len(before) - 1

\* travel time of the matrix in use for the ordered pair (from, to)
TimeBetween(from, to) == MatrixGet(matrix, from, to).time

\* the saving of stops number a and b of the expansion; NaN when a term is
PairSaving(a, b) ==
    IF \/ IsNaN(TimeBetween(origin, allStops[a].coords))
       \/ IsNaN(TimeBetween(origin, allStops[b].coords))
       \/ IsNaN(TimeBetween(allStops[a].coords, allStops[b].coords))
    THEN NaN
    ELSE TimeBetween(origin, allStops[a].coords)
         + TimeBetween(origin, allStops[b].coords)
         - TimeBetween(allStops[a].coords, allStops[b].coords)

\* entries of the savings list naming stops number a and b, in this order
EntriesOf(a, b) ==
    {e \in 1..Len(savings) :
        savings[e].i = allStops[a].id /\ savings[e].j = allStops[b].id}

\* C16 as stated: the list is exact and two stops whose saving is <= 0 are
\* never brought into one route by the pass
NonPositivePairsApart ==
    InMergePass \/ Returned =>
        /\ \A e \in 1..Len(savings) : savings[e].s > 0
        /\ \A a, b \in 1..Len(allStops) :
              a < b /\ ~IsNaN(PairSaving(a, b)) /\ PairSaving(a, b) <= 0 =>
                 /\ EntriesOf(a, b) = {}
                 /\ Holders(routes, allStops[a].id) # Holders(routes, allStops[b].id)

\* C16 amended: the savings list holds one entry for each pair a before b of the
\* expansion whose saving time(origin,a) + time(origin,b) - time(a,b) is > 0,
\* with that value, and nothing else; a pair whose saving is not > 0 has no
\* entry in either order, so no step of the pass merges on its account
SavingsExact ==
    InMergePass \/ Returned =>
        /\ \A a, b \in 1..Len(allStops) :
              /\ a < b /\ ~IsNaN(PairSaving(a, b)) /\ PairSaving(a, b) > 0 =>
                    /\ Cardinality(EntriesOf(a, b)) = 1
                    /\ \A e \in EntriesOf(a, b) : savings[e].s = PairSaving(a, b)
              /\ a < b /\ (IsNaN(PairSaving(a, b)) \/ PairSaving(a, b) <= 0) =>
                    EntriesOf(a, b) = {}
              /\ a >= b => EntriesOf(a, b) = {}
        /\ \A e \in 1..Len(savings) :
              /\ savings[e].s > 0
              /\ \E a, b \in 1..Len(allStops) : e \in EntriesOf(a, b)

\* the pass is over on a live matrix where a pair has a negative saving as
\* pushed and a positive one in the other direction; its two stops met in
\* one route through entries with a third stop
SavingsExactWitness ==
    /\ InMergePass
    /\ k = Len(savings)
    /\ k > 0
    /\ matrix.live
    /\ \E a, b \in 1..Len(allStops) :
         /\ a < b
         /\ ~IsNaN(PairSaving(a, b)) /\ PairSaving(a, b) < 0
         /\ ~IsNaN(PairSaving(b, a)) /\ PairSaving(b, a) > 0
         /\ Holders(routes, allStops[a].id) = Holders(routes, allStops[b].id)

\* entry e of the list is evaluated on route list rs
AfterEntry(rs, e) ==
    IF Mergeable(rs, savings[e].i, savings[e].j, config.truckCapacity)
    THEN MergeRoutes(rs, FindRoute(rs, savings[e].i), FindRoute(rs, savings[e].j),
                     origin, matrix)
    ELSE rs

\* C17: the savings list is in non-increasing order of value and stays as it
\* is; every step of the pass takes the entry after the one taken before and
\* evaluates it on the route list the earlier entries left, and the pass
\* ends only when every entry was taken, so each entry is visited exactly
\* once and none is revisited after a merge
PassOnceInOrder ==
    [][InMergePass =>
         /\ \A e, f \in 1..Len(savings) : e < f => savings[e].s >= savings[f].s
         /\ savings' = savings
         /\ routes = RoutesAfter(k)
         /\ \/ /\ k < Len(savings)
               /\ k' = k + 1
               /\ pc' = "merge"
               /\ routes' = AfterEntry(routes, k + 1)
            \/ /\ k = Len(savings)
               /\ k' = k
               /\ pc' = "done"
               /\ routes' = routes]_vars

\* the pass reached the end of a list of at least three entries of different
\* values, having merged on some entries and skipped others
PassOnceInOrderWitness ==
    /\ InMergePass
    /\ k = Len(savings)
    /\ k >= 3
    /\ savings[1].s > savings[k].s
    /\ Len(routes) < Len(allStops)
    /\ k > Len(allStops) - Len(routes)

\* stops a and b sit in one route of rs
Together(rs, a, b) == \E n \in 1..Len(rs) : {a, b} \subseteq StopIds(rs[n].stops)

RouteIds(rs) == {rs[n].id : n \in 1..Len(rs)}

\* C18: a step of the pass keeps together every two stops that share a
\* route, keeps every route whole inside some route, and brings back no
\* route that was removed; the returned routes group the stops as the pass
\* left them
NoBacktracking ==
    [][InMergePass =>
         /\ \A a, b \in StopIds(allStops) :
               Together(routes, a, b) => Together(routes', a, b)
         /\ \A n \in 1..Len(routes) : \E q \in 1..Len(routes') :
               StopIds(routes[n].stops) \subseteq StopIds(routes'[q].stops)
         /\ RouteIds(routes') \subseteq RouteIds(routes)
         /\ Len(routes') <= Len(routes)
         /\ pc' = "done" =>
               /\ Len(result'.routes) = Len(routes)
               /\ \A a, b \in StopIds(allStops) :
                     Together(routes, a, b) <=> Together(result'.routes, a, b)]_vars

\* a returned solution with a route of three stops built by two merges, and
\* a savings entry whose stops stayed apart because of those merges
NoBacktrackingWitness ==
    /\ Returned
    /\ \E n \in 1..Len(result.routes) : Len(result.routes[n].stops) >= 3
    /\ \E e \in 1..Len(savings) :
         /\ ~Together(result.routes, savings[e].i, savings[e].j)
         /\ \E a, b \in 1..Len(allStops) :
               /\ allStops[a].id = savings[e].i
               /\ allStops[b].id = savings[e].j
               /\ allStops[a].volume + allStops[b].volume <= config.truckCapacity

\* the stop records held by the routes of rs, without the schedule fields
StopRecords(rs) ==
    UNION {{[id |-> rs[n].stops[p].id, coords |-> rs[n].stops[p].coords,
             volume |-> rs[n].stops[p].volume, endereco |-> rs[n].stops[p].endereco,
             originalIndex |-> rs[n].stops[p].originalIndex] :
               p \in 1..Len(rs[n].stops)} : n \in 1..Len(rs)}

\* C19: a step that merges on entry (a, b) leaves the route of a in place,
\* holding the resequenced union under the summed totalVolume, removes the
\* route of b, leaves every other route as it was and in the same order, and
\* changes no field of any stop, wherever the route of b stands in the list
MergeFrame ==
    [][InMergePass /\ k' = k + 1 /\ routes' # routes =>
         LET ra == CHOOSE n \in 1..Len(routes) : savings[k + 1].i \in StopIds(routes[n].stops)
             rb == CHOOSE n \in 1..Len(routes) : savings[k + 1].j \in StopIds(routes[n].stops)
             place(n) == IF n < rb THEN n ELSE n - 1
         IN /\ ra # rb
            /\ Len(routes') = Len(routes) - 1
            /\ routes'[place(ra)].id = routes[ra].id
            /\ routes'[place(ra)].stops =
                  nearestNeighborSort(routes[ra].stops \o routes[rb].stops,
                                      origin, matrix)
            /\ StopIds(routes'[place(ra)].stops) =
                  StopIds(routes[ra].stops) \cup StopIds(routes[rb].stops)
            /\ routes'[place(ra)].totalVolume =
                  routes[ra].totalVolume + routes[rb].totalVolume
            /\ routes[rb].id \notin RouteIds(routes')
            /\ \A n \in 1..Len(routes) :
                  n \notin {ra, rb} => routes'[place(n)] = routes[n]
            /\ StopRecords(routes') = StopRecords(routes)
            /\ StopRecords(routes') = {allStops[q] : q \in 1..Len(allStops)}
            /\ allStops' = allStops]_vars

\* the pass has merged once with the route of b after the route of a and
\* once with the route of b before it, a bystander route left in the list
MergeFrameWitness ==
    /\ InMergePass
    /\ routes = RoutesAfter(k)
    /\ Len(routes) >= 2
    /\ \E n \in 0..(k - 1) :
         /\ Len(RoutesAfter(n + 1)) < Len(RoutesAfter(n))
         /\ FindRoute(RoutesAfter(n), savings[n + 1].j)
              < FindRoute(RoutesAfter(n), savings[n + 1].i)
    /\ \E n \in 0..(k - 1) :
         /\ Len(RoutesAfter(n + 1)) < Len(RoutesAfter(n))
         /\ FindRoute(RoutesAfter(n), savings[n + 1].j)
              > FindRoute(RoutesAfter(n), savings[n + 1].i)

----------------------------------------------------------------------------
(* Properties of the greedy order *)

\* index in allStops of the stop with this id
InputIndex(id) == CHOOSE p \in 1..Len(allStops) : allStops[p].id = id

\* input indices of the stops not among the first q - 1 of the output
Unplaced(q) ==
    {p \in 1..Len(allStops) :
        \A r \in 1..(q - 1) : result.sorted[r].id # allStops[p].id}

\* position the sort stands at when it picks output number q
CurrentAt(q) == IF q = 1 THEN origin ELSE result.sorted[q - 1].coords

\* C20 as stated: output number q is an unplaced stop that no unplaced stop
\* beats on travel time from the current position, and the first in input
\* order among the unplaced stops with the same time
NNGreedy ==
    pc = "sorted" =>
        \A q \in 1..Len(result.sorted) :
            LET chosen == InputIndex(result.sorted[q].id)
                t(p) == MatrixGet(matrix, CurrentAt(q), allStops[p].coords).time
            IN /\ chosen \in Unplaced(q)
               /\ \A p \in Unplaced(q) : ~Less(t(p), t(chosen))
               /\ \A p \in Unplaced(q) : t(p) = t(chosen) => chosen <= p

\* hundredths of a second from midnight of the start day to the arrival at
\* stop number p of a route, every leg and unloading taken at its full value
RECURSIVE ExactArrival(_, _)
ExactArrival(stops, p) ==
    IF p = 1
    THEN (config.startTime + config.loadingTimeMin) * 6000
         + MatrixGet(matrix, origin, stops[1].coords).time
    ELSE ExactArrival(stops, p - 1)
         + stops[p - 1].volume * config.unloadingMinPerM3 * 6
         + MatrixGet(matrix, stops[p - 1].coords, stops[p].coords).time

\* a count of hundredths of a second shown as a clock in whole minutes
ShownClock(t) == ((t + 3000) \div 6000) % 1440

LastStop(stops) == stops[Len(stops)]

\* C22: returnToDepotTime of every returned route is the departureTime of
\* its last stop plus the travel time from that stop back to the origin, in
\* whole minutes on the 24-hour clock
ReturnAfterLastStop ==
    pc = "scheduled" =>
        \A n \in 1..Len(result.routes) :
            LET r == result.routes[n]
                back == MatrixGet(matrix, LastStop(r.stops).coords, origin).time
            IN LegsKnown(routes[n].stops, origin, matrix) /\ ~IsNaN(back) =>
                 r.returnToDepotTime =
                    (LastStop(r.stops).departureTime + RoundMinutes(back)) % 1440

\* a route on the live matrix whose way back takes a minute more than the
\* way out, returned to the depot within the day
ReturnAfterLastStopWitness ==
    /\ pc = "scheduled"
    /\ matrix.live
    /\ \E n \in 1..Len(result.routes) :
         LET r == result.routes[n]
             back == MatrixGet(matrix, LastStop(r.stops).coords, origin).time
             out == MatrixGet(matrix, origin, LastStop(r.stops).coords).time
         IN /\ Len(r.stops) >= 2
            /\ LegsKnown(routes[n].stops, origin, matrix)
            /\ ~IsNaN(back) /\ ~IsNaN(out)
            /\ RoundMinutes(back) # RoundMinutes(out)
            /\ r.returnToDepotTime = LastStop(r.stops).departureTime + RoundMinutes(back)

\* the points of the tour of a route: origin, every stop in order, origin
TourPoints(stops) ==
    <<origin>> \o [p \in 1..Len(stops) |-> stops[p].coords] \o <<origin>>

\* every leg of the tour has a distance that is a number
TourKnown(points) ==
    \A p \in 1..(Len(points) - 1) :
        ~IsNaN(MatrixGet(matrix, points[p], points[p + 1]).dist)

\* metres of the first n legs of the tour
RECURSIVE TourDistance(_, _)
TourDistance(points, n) ==
    IF n = 0 THEN 0
    ELSE TourDistance(points, n - 1)
         + MatrixGet(matrix, points[n], points[n + 1]).dist

\* C23: totalDistanceKm of every returned route is the sum of the matrix
\* distances of the legs origin -> stop1 -> ... -> stopN -> origin in the
\* final order, to two decimals of a kilometre; the schedule pass keeps the
\* number of routes, every route's stops in their order with their fields,
\* and totalVolume
TotalDistanceOverTour ==
    pc = "scheduled" =>
        /\ Len(result.routes) = Len(routes)
        /\ \A n \in 1..Len(result.routes) :
              LET r == result.routes[n]
                  points == TourPoints(routes[n].stops)
              IN /\ TourKnown(points) =>
                      r.totalDistanceKm =
                         ((TourDistance(points, Len(points) - 1) + 5) \div 10) * 10
                 /\ r.totalVolume = routes[n].totalVolume
                 /\ Len(r.stops) = Len(routes[n].stops)
                 /\ \A p \in 1..Len(r.stops) :
                       /\ r.stops[p].id = routes[n].stops[p].id
                       /\ r.stops[p].coords = routes[n].stops[p].coords
                       /\ r.stops[p].volume = routes[n].stops[p].volume
                       /\ r.stops[p].endereco = routes[n].stops[p].endereco
                       /\ r.stops[p].originalIndex = routes[n].stops[p].originalIndex

\* two routes, one of them of two stops at different places on the live
\* matrix, whose tour is longer than out and back to its last stop
TotalDistanceOverTourWitness ==
    /\ pc = "scheduled"
    /\ matrix.live
    /\ Len(result.routes) = 2
    /\ \E n \in 1..Len(result.routes) :
         LET r == result.routes[n]
             points == TourPoints(routes[n].stops)
         IN /\ Len(r.stops) = 2
            /\ r.stops[1].coords # r.stops[2].coords
            /\ TourKnown(points)
            /\ r.totalDistanceKm = TourDistance(points, 3)
            /\ r.totalDistanceKm
                 # MatrixGet(matrix, origin, r.stops[2].coords).dist
                   + MatrixGet(matrix, r.stops[2].coords, origin).dist

----------------------------------------------------------------------------
(* Properties of the cost matrix *)

\* C24: after a complete live answer over the n points of coordsMap, the
\* lookup of (points[i], points[j]) is entry i * n + j of the flat arrays,
\* as minutes (seconds / 60) and kilometres (metres / 1000), for all i, j
\* in 0..n-1, each direction with its own entry
MatrixIndexMapping ==
    matrixAnswer = "ok" =>
        LET n == Len(coordsMap)
        IN /\ matrix.live
           /\ \A a, b \in 0..(n - 1) :
                 MatrixGet(matrix, coordsMap[a + 1], coordsMap[b + 1]) =
                    [time |-> ServerTimes(coordsMap)[a * n + b + 1] * 100,
                     dist |-> ServerDistances(coordsMap)[a * n + b + 1]]

\* a live matrix over the depot and two places in which the two directions
\* between the places differ in time and in distance
MatrixIndexMappingWitness ==
    /\ matrixAnswer = "ok"
    /\ Len(coordsMap) = 3
    /\ MatrixGet(matrix, coordsMap[2], coordsMap[3]).time
         # MatrixGet(matrix, coordsMap[3], coordsMap[2]).time
    /\ MatrixGet(matrix, coordsMap[2], coordsMap[3]).dist
         # MatrixGet(matrix, coordsMap[3], coordsMap[2]).dist
    /\ MatrixGet(matrix, coordsMap[3], coordsMap[1]).time = 84000

\* the live matrix in use has an entry for the ordered pair
Covered(from, to) == getKey(from, to) \in DOMAIN matrix.lookup

\* the legs the saving of stops number a and b reads are all in the matrix
PairCovered(a, b) ==
    /\ Covered(origin, allStops[a].coords)
    /\ Covered(origin, allStops[b].coords)
    /\ Covered(allStops[a].coords, allStops[b].coords)

\* an absent pair gives the sentinel, which no entry of the matrix beats
SentinelIsWorst ==
    \A from, to \in {Position(a) : a \in {"O", "A", "B"}} :
        ~Covered(from, to) =>
            /\ MatrixGet(matrix, from, to) = [time |-> UnknownCost, dist |-> UnknownDist]
            /\ \A key \in DOMAIN matrix.lookup :
                  matrix.lookup[key].time <= MatrixGet(matrix, from, to).time

\* the resequencer takes a stop over an absent leg only when every unplaced
\* stop is over an absent leg
SortAvoidsUnknown ==
    \A q \in 1..Len(result.sorted) :
        (\E p \in Unplaced(q) : Covered(CurrentAt(q), allStops[p].coords))
            => Covered(CurrentAt(q), result.sorted[q].coords)

ClockArithmetic ==
    pc = "clock" =>
        /\ result.time \in 0..1439
        /\ result.time = (result.before + result.last) % 1440
        /\ result.time = (config.startTime + result.total) % 1440
        /\ result.time = addMinutes(config.startTime, result.total)

\* two additions of more than nothing, the second of which passed midnight
ClockArithmeticWitness ==
    /\ pc = "clock"
    /\ i = 2
    /\ result.last > 0
    /\ result.total > result.last
    /\ result.before + result.last >= 1440
    /\ result.time < result.before

\* a row is accounted for by its address in the unmapped list or by a stop
\* of its index in a returned route
Accounted(row) ==
    \/ \E u \in 1..Len(result.unmapped) :
          result.unmapped[u] = rawData[row + 1].endereco
    \/ \E r \in 1..Len(result.routes) :
          \E p \in 1..Len(result.routes[r].stops) :
              result.routes[r].stops[p].originalIndex = row

\* C27: after a successful run every input row with a volume above zero is
\* accounted for
RowsAccounted ==
    pc = "done" =>
        \A row \in 0..(Len(rawData) - 1) :
            rawData[row + 1].volume > 0 => Accounted(row)

-----------------------------------------------------------------------------
(* Properties of the App component *)

\* C28: what a shift holds as routes and unmapped addresses was computed
\* from the rows of that same shift, and a shift is complete only with such
\* a result
ResultsInOwnShift ==
    pc = "app" =>
        \A s \in ShiftNames :
            LET own == OptimizationResult(Sheet(s))
                sh == state.shifts[s]
            IN /\ sh.routes \in {<<>>, own.routes}
               /\ sh.unmappedAddresses \in {<<>>, own.unmapped}
               /\ sh.status = "complete" => sh.routes = own.routes

\* C29, in runs that end: once every call of handleRun has settled no shift
\* is left geocoding
NoShiftLeftGeocoding ==
    pc = "app" /\ runs = <<>> =>
        \A s \in ShiftNames : state.shifts[s].status # "geocoding"

\* the call of handleRun that a step ended, as its place in runs
Ended(n) == n \in 1..Len(runs) /\ runs' = RemoveAt(runs, n)

\* C30: a step in which a two-shift handleRun ends by a throw leaves the
\* routes and the unmapped addresses of both shifts as they were and turns
\* every geocoding shift to error, and a step that gives a shift routes or
\* unmapped addresses ends a handleRun whose every optimization returned
AllOrNothing ==
    [][ /\ (lastOutcome' \in {"morning threw", "afternoon threw"}
             /\ Len(runs') < Len(runs)) =>
              \A s \in ShiftNames :
                  /\ state'.shifts[s].routes = state.shifts[s].routes
                  /\ state'.shifts[s].unmappedAddresses =
                         state.shifts[s].unmappedAddresses
                  /\ state.shifts[s].status = "geocoding" =>
                         state'.shifts[s].status = "error"
        /\ \A s \in ShiftNames :
              (state'.shifts[s].routes \notin {<<>>, state.shifts[s].routes}
                 \/ state'.shifts[s].unmappedAddresses
                       \notin {<<>>, state.shifts[s].unmappedAddresses}) =>
                  /\ lastOutcome' = "committed"
                  /\ \E n \in 1..Len(runs) :
                        /\ Ended(n)
                        /\ runs[n].rawData["morning"] # <<>> =>
                              \/ runs[n].morningRes # <<>>
                              \/ /\ runs[n].awaiting = "morning"
                                 /\ runs[n].rawData["afternoon"] = <<>>
                        /\ runs[n].rawData["afternoon"] # <<>> =>
                              runs[n].awaiting = "afternoon"
      ]_vars

\* the afternoon optimization threw after the morning one had returned: both
\* shifts are in error and neither has routes
AllOrNothingWitness ==
    /\ pc = "app"
    /\ lastOutcome = "afternoon threw"
    /\ runs = <<>>
    /\ \A s \in ShiftNames :
          /\ state.shifts[s].rawData # <<>>
          /\ state.shifts[s].status = "error"
          /\ state.shifts[s].routes = <<>>

====
